---- MODULE Spec2Model ----
(***************************************************************************)
(* Requirements dashboard (frontend/src/pages/Dashboard.js): the query     *)
(* state, the debounced list fetch, the overall-stats fetch, the derived   *)
(* statistics, the tracker integration (connectToJira, pushToJira) and     *)
(* the CSV export, as a state machine over the component's React state.    *)
(* One action per event handler, timer callback or response continuation;  *)
(* the effects a re-render runs are part of the action that caused the     *)
(* re-render.  Spec is the query engine; SpecStats, SpecToggle, SpecJira,  *)
(* SpecPush, SpecClassify and SpecExport run one part of the component     *)
(* each, from states the query engine reaches.                             *)
(***************************************************************************)
EXTENDS Integers, Sequences, FiniteSets, TLC

VARIABLES
    requirements,     \* useState([])                     Dashboard.js:10
    overallStats,     \* useState({total: 0, ...})        Dashboard.js:11
    filteredStats,    \* useState({total: 0, ...})        Dashboard.js:12
    searchQuery,      \* useState('')                     Dashboard.js:13
    filters,          \* useState({type: [], ...})        Dashboard.js:14
    loading,          \* useState(false)                  Dashboard.js:15
    error,            \* useState('')                     Dashboard.js:16
    pagination,       \* useState({page: 1, pages: 1, total: 0})  :17
    selectedProject,  \* useState(null)                   Dashboard.js:18
    timers,           \* pending setTimeout callbacks of the debounce effect
    inflight,         \* list requests awaiting their response
    statsInflight,    \* overall-stats requests awaiting their response
    nextId,           \* number of the next list request (issue order)
    lastStep,         \* history: the step just taken, with the response
                      \* body it processed and the page shown before it
    changed,          \* history: a dependency of the debounce effect has
                      \* changed since the mount
    issuedSinceChange,\* history: list requests issued since the last change
                      \* of a dependency of the debounce effect
    toggledSincePage, \* history, kept only by the specifications that
                      \* start it at Some(FALSE): a filter was toggled and
                      \* Previous or Next has not been clicked since
    projects,         \* useState([])                     Dashboard.js:19
    jiraSettings,     \* useState({isConnected: false, projectKey: ''}) :20
    isJiraModalOpen,  \* useState(false)                  Dashboard.js:21
    connectInflight,  \* POST /api/jira/connect requests awaiting their response
    pushAttempts,     \* the calls of pushToJira, each with its position
    alertShown,       \* the alert() the step just taken has shown, if any
    downloads         \* the files exportData has handed to the browser

vars == <<requirements, overallStats, filteredStats, searchQuery, filters,
          loading, error, pagination, selectedProject, timers, inflight,
          statsInflight, nextId, lastStep, changed, issuedSinceChange,
          toggledSincePage, projects, jiraSettings, isJiraModalOpen, connectInflight,
          pushAttempts, alertShown, downloads>>

\* the state of the tracker integration and of the export, which the query
\* handlers never write
integration == <<projects, jiraSettings, isJiraModalOpen, connectInflight,
                 pushAttempts, alertShown, downloads>>

----------------------------------------------------------------------------
(* Bounds of the model *)

\* list requests issued in one behaviour
MaxRequests == 2
\* overall-stats requests in flight at once for one project
MaxStatsInFlight == 1
\* records in one page of a list response
MaxReqs == 3
\* largest page / pages number a list response carries
MaxPage == 2

----------------------------------------------------------------------------
(* JavaScript values *)

\* null, NaN and numbers (every number of the model is an integer)
JSNull == [type |-> "null"]
JSNaN == [type |-> "NaN"]
JSNum(n) == [type |-> "number", value |-> n]

\* an optional field of a response body: <<>> when absent, <<v>> when present
Absent == <<>>
Some(v) == <<v>>

\* x || d for a numeric field: absent (undefined) and 0 are falsy
OrNumber_TakesZero(x, d) == IF x = Absent THEN d ELSE x[1]
OrNumber(x, d) == IF x = Absent \/ x = Some(0) THEN d ELSE x[1]

\* x || d for an array field: every array, the empty one too, is truthy
OrArray(x, d) == IF x = Absent THEN d ELSE x[1]

\* x || d for a string field: absent and '' are falsy
OrString(x, d) == IF x = Absent \/ x = Some("") THEN d ELSE x[1]

----------------------------------------------------------------------------
(* Inputs *)

Statuses == {"Draft", "Review", "Approved", "Disapproved"}

\* the values the user toggles, out of the options of FiltersSidebar
FilterTypes == {"type", "status", "complexity", "priority"}
FilterInputs == {<<"status", "Approved">>}

SearchTexts == {"", "login"}

\* e.target.value of the project <select>, as a sequence of characters
SelectValues == {<<>>, <<"1">>, <<"0">>, <<"-", "1">>,
                 <<"1", ".", "5">>, <<"a", "b">>}

\* error.response?.data?.error of a failed list request
ServerErrors == {Absent, Some(""), Some("Invalid page")}

GenericListError == "Failed to load requirements"
GenericStatsError == "Failed to load statistics. Please try again."

\* GET /api/requirements/stats?project=p : the server's StatsSummary
ServerStats(p) ==
    [total |-> p.value + 1, approved |-> p.value, inReview |-> 1,
     disapproved |-> 0]

\* every page of at most MaxReqs records, by status
StatusLists == UNION {[1..n -> Statuses] : n \in 0..MaxReqs}

Max(a, b) == IF a >= b THEN a ELSE b

\* page and pages of a response body: absent, the least and the largest value
OptPage == {Absent, Some(1), Some(MaxPage)}
OptPages == {Absent, Some(0), Some(MaxPage)}

\* the server keeps its contract: a page it reports lies in 1..max(pages, 1)
\* (an absent pages counting as none)
InContract(page, pages) ==
    page # Absent =>
        page[1] <= Max(IF pages = Absent THEN 0 ELSE pages[1], 1)

\* requirements and total of a response body: a body that carries neither,
\* and one that carries both
Contents == {[requirements |-> Absent, total |-> Absent],
             [requirements |-> Some(<<"Approved", "Draft">>), total |-> Some(3)]}

\* bodies of a successful GET /api/requirements
ListResponses ==
    {[requirements |-> c.requirements, page |-> pg[1], pages |-> pg[2],
      total |-> c.total] :
        c \in Contents,
        pg \in {q \in OptPage \X OptPages : InContract(q[1], q[2])}}

----------------------------------------------------------------------------
(* Pure functions of the component *)

\* Number.isInteger(id) && id > 0
isValidProjectId_AcceptsZero(id) == id.type = "number" /\ id.value >= 0
isValidProjectId(id) == id.type = "number" /\ id.value > 0

Digits == {"0", "1", "2", "3", "4", "5", "6", "7", "8", "9"}
DigitValue(c) ==
    CASE c = "0" -> 0 [] c = "1" -> 1 [] c = "2" -> 2 [] c = "3" -> 3
      [] c = "4" -> 4 [] c = "5" -> 5 [] c = "6" -> 6 [] c = "7" -> 7
      [] c = "8" -> 8 [] c = "9" -> 9

\* the longest prefix of s made of digits
RECURSIVE DigitPrefix(_)
DigitPrefix(s) ==
    IF s = <<>> \/ Head(s) \notin Digits THEN <<>>
    ELSE <<Head(s)>> \o DigitPrefix(Tail(s))

RECURSIVE DecimalValue(_)
DecimalValue(ds) ==
    IF ds = <<>> THEN 0
    ELSE 10 * DecimalValue(SubSeq(ds, 1, Len(ds) - 1)) + DigitValue(ds[Len(ds)])

\* parseInt(s, 10): optional sign, then the leading digits; NaN without any
parseInt(s) ==
    LET neg == s # <<>> /\ Head(s) = "-"
        signed == s # <<>> /\ Head(s) \in {"-", "+"}
        ds == DigitPrefix(IF signed THEN Tail(s) ELSE s)
    IN  IF ds = <<>> THEN JSNaN
        ELSE JSNum(IF neg THEN 0 - DecimalValue(ds) ELSE DecimalValue(ds))

\* array.filter(r => r.status === s).length
CountStatus(reqs, s) ==
    Cardinality({i \in 1..Len(reqs) : reqs[i].status = s})

\* newFilteredStats of fetchRequirements
newFilteredStats_ReviewAsApproved(reqs) ==
    [total |-> Len(reqs),
     approved |-> CountStatus(reqs, "Approved") + CountStatus(reqs, "Review"),
     inReview |-> CountStatus(reqs, "Review"),
     disapproved |-> CountStatus(reqs, "Disapproved")]
newFilteredStats(reqs) ==
    [total |-> Len(reqs),
     approved |-> CountStatus(reqs, "Approved"),
     inReview |-> CountStatus(reqs, "Review"),
     disapproved |-> CountStatus(reqs, "Disapproved")]

\* array.includes(v)
Includes(arr, v) == \E i \in 1..Len(arr) : arr[i] = v

\* array.filter(f => f !== v)
RECURSIVE Without(_, _)
Without(arr, v) ==
    IF arr = <<>> THEN <<>>
    ELSE IF Head(arr) = v THEN Without(Tail(arr), v)
         ELSE <<Head(arr)>> \o Without(Tail(arr), v)

\* the updater handed to setFilters by handleFilterChange
ToggleFilter_Prepends(prev, filterType, value) ==
    [prev EXCEPT ![filterType] =
        IF Includes(prev[filterType], value)
        THEN Without(prev[filterType], value)
        ELSE <<value>> \o prev[filterType]]
ToggleFilter(prev, filterType, value) ==
    [prev EXCEPT ![filterType] =
        IF Includes(prev[filterType], value)
        THEN Without(prev[filterType], value)
        ELSE Append(prev[filterType], value)]

\* the updater handed to setPagination by handleFilterChange
ResetPage_Keeps(prev) == prev
ResetPage(prev) == [prev EXCEPT !.page = 1]

\* the pagination object built from a list response
ResponsePagination(data) ==
    [page |-> OrNumber(data.page, 1),
     pages |-> OrNumber(data.pages, 1),
     total |-> OrNumber(data.total, 0)]

\* the records of a response body, each belonging to the requested project
Records(statuses, project) ==
    [i \in 1..Len(statuses) |-> [status |-> statuses[i], project |-> project]]

\* error.response?.data?.error || 'Failed to load requirements'
ListErrorMessage_AlwaysGeneric(e) == GenericListError
ListErrorMessage(e) == OrString(e, GenericListError)

----------------------------------------------------------------------------
(* The debounce effect *)

\* the dependency array [selectedProject, searchQuery, filters, pagination.page]
\* which is also what the fetchRequirements closure of that render reads
Deps(proj, search, flt, pag) ==
    [project |-> proj, search |-> search, filters |-> flt, page |-> pag.page]

\* the effect's cleanup: clearTimeout(debounceTimer)
ClearTimeout_Leaks(ts) == ts
ClearTimeout(ts) == {}

\* after a render: when a dependency changed, the cleanup of the previous
\* effect runs and a new 500 ms timer is set; otherwise nothing happens.
\* changed is given separately because setFilters always stores a new object.
RunDebounceEffect(depsChanged, newDeps) ==
    /\ timers' = IF depsChanged THEN ClearTimeout(timers) \cup {newDeps}
                 ELSE timers
    /\ changed' = (changed \/ depsChanged)
    /\ issuedSinceChange' = IF depsChanged THEN 0 ELSE issuedSinceChange

\* history record of a step: id is the list request it issued or answered
\* (0 for none), body the response body or error it processed, page the
\* page shown before a step of the user
Step(op, id, body, page) == [op |-> op, id |-> id, body |-> body, page |-> page]

\* the value a step of the user gives to the history toggledSincePage: the
\* history stays Absent in a specification that does not keep it
Recorded(b) == IF toggledSincePage = Absent THEN Absent ELSE Some(b)

----------------------------------------------------------------------------
(* State after the first render and its effects *)

NoStats == [total |-> 0, approved |-> 0, inReview |-> 0, disapproved |-> 0]
NoFilters == [filterType \in FilterTypes |-> <<>>]

\* the projects GET /api/projects has answered with (setProjects, line 43):
\* the options of the project <select>
ProjectList ==
    <<[id |-> 1, name |-> <<"A", "l", "p", "h", "a">>,
       hourly_rate |-> Some(50)]>>

\* no tracker connection, the modal closed, nothing pushed or exported
NoIntegration ==
    /\ projects = ProjectList
    /\ jiraSettings = [isConnected |-> FALSE, projectKey |-> ""]
    /\ isJiraModalOpen = FALSE
    /\ connectInflight = <<>>
    /\ pushAttempts = <<>>
    /\ alertShown = Absent
    /\ downloads = <<>>

Init ==
    /\ requirements = <<>>
    /\ overallStats = NoStats
    /\ filteredStats = NoStats
    /\ searchQuery = ""
    /\ filters = NoFilters
    /\ loading = FALSE
    /\ error = ""
    /\ pagination = [page |-> 1, pages |-> 1, total |-> 0]
    /\ selectedProject = JSNull
    \* the debounce effect ran once on mount
    /\ timers = {Deps(JSNull, "", NoFilters, [page |-> 1])}
    /\ inflight = {}
    \* fetchOverallStats ran once on mount and returned at its guard
    /\ statsInflight = <<>>
    /\ nextId = 1
    /\ lastStep = Step("mount", 0, Absent, 0)
    /\ changed = FALSE
    /\ issuedSinceChange = 0
    /\ toggledSincePage = Absent
    /\ NoIntegration

----------------------------------------------------------------------------
(* Event handlers *)

\* onChange of the project <select> (disabled while loading), followed by
\* the two effects that depend on selectedProject
handleProjectChange(value) ==
    LET projectId == IF value # <<>> THEN parseInt(value) ELSE JSNull
        new == IF isValidProjectId(projectId) THEN projectId ELSE JSNull
        projectChanged == new # selectedProject
        fetches == projectChanged /\ isValidProjectId(new)
    IN  /\ ~loading
        /\ fetches =>
              Cardinality({i \in 1..Len(statsInflight) : statsInflight[i] = new})
                  < MaxStatsInFlight
        /\ selectedProject' = new
        /\ statsInflight' = IF fetches THEN Append(statsInflight, new)
                            ELSE statsInflight
        /\ RunDebounceEffect(projectChanged,
                             Deps(new, searchQuery, filters, pagination))
        /\ UNCHANGED toggledSincePage
        /\ UNCHANGED integration
        /\ lastStep' = Step("project", 0, Absent, pagination.page)
        /\ UNCHANGED <<requirements, overallStats, filteredStats, searchQuery,
                       filters, loading, error, pagination, inflight, nextId>>

\* onChange of the search box of FiltersSidebar (rendered for a valid
\* project, disabled while loading)
setSearchQuery(text) ==
    /\ isValidProjectId(selectedProject)
    /\ ~loading
    /\ text # searchQuery
    /\ searchQuery' = text
    /\ RunDebounceEffect(TRUE, Deps(selectedProject, text, filters, pagination))
    /\ UNCHANGED toggledSincePage
    /\ UNCHANGED integration
    /\ lastStep' = Step("search", 0, Absent, pagination.page)
    /\ UNCHANGED <<requirements, overallStats, filteredStats, filters, loading,
                   error, pagination, selectedProject, inflight, statsInflight,
                   nextId>>

\* onChange of a filter checkbox, had it filtered the shown list on the spot
handleFilterChange_FiltersLocally(filterType, value) ==
    LET kept == SelectSeq(requirements, LAMBDA req : req[filterType] = value)
    IN  /\ isValidProjectId(selectedProject)
        /\ filters' = ToggleFilter(filters, filterType, value)
        /\ pagination' = ResetPage(pagination)
        /\ requirements' = kept
        /\ filteredStats' = newFilteredStats(kept)
        /\ RunDebounceEffect(TRUE, Deps(selectedProject, searchQuery, filters',
                                        pagination'))
        /\ toggledSincePage' = Recorded(TRUE)
        /\ UNCHANGED integration
        /\ lastStep' = Step("filter", 0, Absent, pagination.page)
        /\ UNCHANGED <<overallStats, searchQuery, loading, error,
                       selectedProject, inflight, statsInflight, nextId>>

\* onChange of a filter checkbox (rendered for a valid project, never disabled)
handleFilterChange(filterType, value) ==
    /\ isValidProjectId(selectedProject)
    /\ filters' = ToggleFilter(filters, filterType, value)
    /\ pagination' = ResetPage(pagination)
    /\ RunDebounceEffect(TRUE,
                         Deps(selectedProject, searchQuery, filters', pagination'))
    /\ toggledSincePage' = Recorded(TRUE)
    /\ UNCHANGED integration
    /\ lastStep' = Step("filter", 0, Absent, pagination.page)
    /\ UNCHANGED <<requirements, overallStats, filteredStats, searchQuery,
                   loading, error, selectedProject, inflight, statsInflight,
                   nextId>>

\* PaginationControls is rendered for a valid project, a non-empty list and
\* loading false
PaginationShown ==
    /\ isValidProjectId(selectedProject)
    /\ ~loading
    /\ Len(requirements) > 0

PreviousEnabled(pag) == pag.page # 1
NextEnabled_Always(pag) == TRUE
NextEnabled(pag) == pag.page # pag.pages

onPageChange_DropsSpread(delta) ==
    /\ pagination' = [page |-> pagination.page + delta, pages |-> 1, total |-> 0]
    /\ RunDebounceEffect(TRUE,
                         Deps(selectedProject, searchQuery, filters, pagination'))
    /\ toggledSincePage' = Recorded(FALSE)
    /\ UNCHANGED integration
    /\ lastStep' = Step("page", 0, Absent, pagination.page)
    /\ UNCHANGED <<requirements, overallStats, filteredStats, searchQuery,
                   filters, loading, error, selectedProject, inflight,
                   statsInflight, nextId>>
onPageChange(delta) ==
    /\ pagination' = [pagination EXCEPT !.page = pagination.page + delta]
    /\ RunDebounceEffect(TRUE,
                         Deps(selectedProject, searchQuery, filters, pagination'))
    /\ toggledSincePage' = Recorded(FALSE)
    /\ UNCHANGED integration
    /\ lastStep' = Step("page", 0, Absent, pagination.page)
    /\ UNCHANGED <<requirements, overallStats, filteredStats, searchQuery,
                   filters, loading, error, selectedProject, inflight,
                   statsInflight, nextId>>

PreviousPage ==
    /\ PaginationShown
    /\ PreviousEnabled(pagination)
    /\ onPageChange(-1)

NextPage ==
    /\ PaginationShown
    /\ NextEnabled(pagination)
    /\ pagination.page <= MaxPage
    /\ onPageChange(1)

----------------------------------------------------------------------------
(* The debounced list fetch *)

\* a debounce timer fires and fetchRequirements returns at its guard
TimerFiresSuppressed_LoadsFirst(t) ==
    /\ t \in timers
    /\ ~isValidProjectId(t.project)
    /\ timers' = timers \ {t}
    /\ loading' = TRUE
    /\ UNCHANGED toggledSincePage
    /\ UNCHANGED integration
    /\ lastStep' = Step("fetchSuppressed", 0, Absent, 0)
    /\ UNCHANGED <<requirements, overallStats, filteredStats, searchQuery,
                   filters, error, pagination, selectedProject, inflight,
                   statsInflight, nextId, changed, issuedSinceChange>>
TimerFiresSuppressed(t) ==
    /\ t \in timers
    /\ ~isValidProjectId(t.project)
    /\ timers' = timers \ {t}
    /\ UNCHANGED toggledSincePage
    /\ UNCHANGED integration
    /\ lastStep' = Step("fetchSuppressed", 0, Absent, 0)
    /\ UNCHANGED <<requirements, overallStats, filteredStats, searchQuery,
                   filters, loading, error, pagination, selectedProject,
                   inflight, statsInflight, nextId, changed,
                   issuedSinceChange>>

\* a debounce timer fires and fetchRequirements runs up to its await
TimerFiresIssues(t) ==
    /\ t \in timers
    /\ isValidProjectId(t.project)
    /\ nextId <= MaxRequests
    /\ timers' = timers \ {t}
    /\ loading' = TRUE
    /\ error' = ""
    /\ inflight' = inflight \cup {[id |-> nextId, deps |-> t]}
    /\ nextId' = nextId + 1
    /\ issuedSinceChange' = issuedSinceChange + 1
    /\ UNCHANGED toggledSincePage
    /\ UNCHANGED integration
    /\ lastStep' = Step("fetchIssued", nextId, Absent, 0)
    /\ UNCHANGED <<requirements, overallStats, filteredStats, searchQuery,
                   filters, pagination, selectedProject, statsInflight,
                   changed>>

\* fetchRequirements resumes after its await with a response body
ListSuccess(r, data) ==
    LET filteredRequirements ==
            Records(OrArray(data.requirements, <<>>), r.deps.project)
    IN  /\ r \in inflight
        /\ inflight' = inflight \ {r}
        /\ requirements' = filteredRequirements
        /\ filteredStats' = newFilteredStats(filteredRequirements)
        /\ pagination' = ResponsePagination(data)
        /\ loading' = FALSE
        /\ RunDebounceEffect(pagination'.page # pagination.page,
                             Deps(selectedProject, searchQuery, filters,
                                  pagination'))
        /\ UNCHANGED toggledSincePage
        /\ UNCHANGED integration
        /\ lastStep' = Step("listSuccess", r.id, data, 0)
        /\ UNCHANGED <<overallStats, searchQuery, filters, error,
                       selectedProject, statsInflight, nextId>>

\* fetchRequirements resumes after its await in the catch block
ListFailure(r, e) ==
    /\ r \in inflight
    /\ inflight' = inflight \ {r}
    /\ error' = ListErrorMessage(e)
    /\ requirements' = <<>>
    /\ loading' = FALSE
    /\ UNCHANGED toggledSincePage
    /\ UNCHANGED integration
    /\ lastStep' = Step("listFailure", r.id, e, 0)
    /\ UNCHANGED <<overallStats, filteredStats, searchQuery, filters,
                   pagination, selectedProject, timers, statsInflight, nextId,
                   changed, issuedSinceChange>>

----------------------------------------------------------------------------
(* The overall-stats fetch *)

RemoveAt(s, i) == SubSeq(s, 1, i - 1) \o SubSeq(s, i + 1, Len(s))

StatsSuccess(i) ==
    /\ i \in 1..Len(statsInflight)
    /\ overallStats' = ServerStats(statsInflight[i])
    /\ statsInflight' = RemoveAt(statsInflight, i)
    /\ UNCHANGED toggledSincePage
    /\ UNCHANGED integration
    /\ lastStep' = Step("statsSuccess", 0, Absent, 0)
    /\ UNCHANGED <<requirements, filteredStats, searchQuery, filters, loading,
                   error, pagination, selectedProject, timers, inflight, nextId,
                   changed, issuedSinceChange>>

StatsFailure_ClearsList(i) ==
    /\ i \in 1..Len(statsInflight)
    /\ error' = GenericStatsError
    /\ requirements' = <<>>
    /\ statsInflight' = RemoveAt(statsInflight, i)
    /\ UNCHANGED toggledSincePage
    /\ UNCHANGED integration
    /\ lastStep' = Step("statsFailure", 0, Absent, 0)
    /\ UNCHANGED <<overallStats, filteredStats, searchQuery, filters, loading,
                   pagination, selectedProject, timers, inflight, nextId,
                   changed, issuedSinceChange>>
StatsFailure(i) ==
    /\ i \in 1..Len(statsInflight)
    /\ error' = GenericStatsError
    /\ statsInflight' = RemoveAt(statsInflight, i)
    /\ UNCHANGED toggledSincePage
    /\ UNCHANGED integration
    /\ lastStep' = Step("statsFailure", 0, Absent, 0)
    /\ UNCHANGED <<requirements, overallStats, filteredStats, searchQuery,
                   filters, loading, pagination, selectedProject, timers,
                   inflight, nextId, changed, issuedSinceChange>>

----------------------------------------------------------------------------

Next ==
    \/ \E value \in SelectValues : handleProjectChange(value)
    \/ \E text \in SearchTexts : setSearchQuery(text)
    \/ \E f \in FilterInputs : handleFilterChange(f[1], f[2])
    \/ PreviousPage
    \/ NextPage
    \/ \E t \in timers : TimerFiresSuppressed(t)
    \/ \E t \in timers : TimerFiresIssues(t)
    \/ \E r \in inflight, data \in ListResponses : ListSuccess(r, data)
    \/ \E r \in inflight, e \in ServerErrors : ListFailure(r, e)
    \/ \E i \in 1..Len(statsInflight) : StatsSuccess(i)
    \/ \E i \in 1..Len(statsInflight) : StatsFailure(i)

Spec == Init /\ [][Next]_vars

----------------------------------------------------------------------------
(* The statistics of a page, on every page of at most MaxReqs records *)

InitStats ==
    /\ requirements \in {Records(l, JSNum(1)) : l \in StatusLists}
    /\ overallStats = NoStats
    /\ filteredStats = NoStats
    /\ searchQuery = ""
    /\ filters = NoFilters
    /\ loading = FALSE
    /\ error = ""
    /\ pagination = [page |-> 1, pages |-> 1, total |-> 0]
    /\ selectedProject = JSNum(1)
    /\ timers = {}
    /\ inflight = {}
    /\ statsInflight = <<>>
    /\ nextId = 1
    /\ lastStep = Step("mount", 0, Absent, 0)
    /\ changed = FALSE
    /\ issuedSinceChange = 0
    /\ toggledSincePage = Absent
    /\ NoIntegration

\* lines 88-97 of fetchRequirements applied to the page
ComputeStats ==
    /\ filteredStats' = newFilteredStats(requirements)
    /\ UNCHANGED toggledSincePage
    /\ UNCHANGED integration
    /\ lastStep' = Step("newFilteredStats", 0, Absent, 0)
    /\ UNCHANGED <<requirements, overallStats, searchQuery, filters, loading,
                   error, pagination, selectedProject, timers, inflight,
                   statsInflight, nextId, changed, issuedSinceChange>>

NextStats == ComputeStats

SpecStats == InitStats /\ [][NextStats]_vars

----------------------------------------------------------------------------
(* Texts, as sequences of characters *)

\* errorMessage.includes('Unauthorized')
KeyUnauthorized ==
    <<"U", "n", "a", "u", "t", "h", "o", "r", "i", "z", "e", "d">>
\* errorMessage.includes('projectKey')
KeyProjectKey ==
    <<"p", "r", "o", "j", "e", "c", "t", "K", "e", "y">>
\* errorMessage.includes('issuetype')
KeyIssuetype ==
    <<"i", "s", "s", "u", "e", "t", "y", "p", "e">>
GuidanceReconnect ==
    <<"\n", "\n", "P", "l", "e", "a", "s", "e", " ", "r", "e", "c", "o",
      "n", "n", "e", "c", "t", " ", "J", "i", "r", "a", " ", "i", "n", "t",
      "e", "g", "r", "a", "t", "i", "o", "n">>
GuidanceProjectKey ==
    <<"\n", "\n", "V", "e", "r", "i", "f", "y", " ", "p", "r", "o", "j",
      "e", "c", "t", " ", "k", "e", "y", " ", "e", "x", "i", "s", "t", "s",
      " ", "i", "n", " ", "J", "i", "r", "a">>
GuidanceIssueTypes ==
    <<"\n", "\n", "C", "h", "e", "c", "k", " ", "p", "r", "o", "j", "e",
      "c", "t", " ", "h", "a", "s", " ", "v", "a", "l", "i", "d", " ", "i",
      "s", "s", "u", "e", " ", "t", "y", "p", "e", "s">>
PushFailedPrefix ==
    <<"J", "i", "r", "a", " ", "p", "u", "s", "h", " ", "f", "a", "i", "l",
      "e", "d", "!", "\n", "\n">>
\* response.data.error || 'Unknown error'
UnknownError ==
    <<"U", "n", "k", "n", "o", "w", "n", " ", "e", "r", "r", "o", "r">>
\* error.message of axios when the 30000 ms timeout expires
TimeoutMessage ==
    <<"t", "i", "m", "e", "o", "u", "t", " ", "o", "f", " ", "3", "0", "0",
      "0", "0", "m", "s", " ", "e", "x", "c", "e", "e", "d", "e", "d">>
\* error.message of axios when no response arrives
NetworkMessage ==
    <<"N", "e", "t", "w", "o", "r", "k", " ", "E", "r", "r", "o", "r">>
\* error.message of axios on an error status
StatusMessage ==
    <<"R", "e", "q", "u", "e", "s", "t", " ", "f", "a", "i", "l", "e", "d",
      " ", "w", "i", "t", "h", " ", "s", "t", "a", "t", "u", "s", " ", "c",
      "o", "d", "e", " ", "4", "0", "0">>
\* an error text of the tracker
TokenExpired ==
    <<"U", "n", "a", "u", "t", "h", "o", "r", "i", "z", "e", "d", ":", " ",
      "t", "o", "k", "e", "n", " ", "e", "x", "p", "i", "r", "e", "d">>
SchemeHttp ==
    <<"h", "t", "t", "p", ":", "/", "/">>
SchemeHttps ==
    <<"h", "t", "t", "p", "s", ":", "/", "/">>
\* site URLs typed into the modal
UrlHttps ==
    <<"h", "t", "t", "p", "s", ":", "/", "/", "a", ".", "i", "o">>
UrlHttp ==
    <<"h", "t", "t", "p", ":", "/", "/", "a", ".", "i", "o">>
UrlFtp ==
    <<"f", "t", "p", ":", "/", "/", "a", ".", "i", "o">>
UrlBare ==
    <<"a", ".", "i", "o">>
UrlOneSlash ==
    <<"h", "t", "t", "p", ":", "/", "a", ".", "i", "o">>
\* fragments error texts are put together from
FragProject ==
    <<"p", "r", "o", "j", "e", "c", "t">>
FragKey ==
    <<"K", "e", "y">>
FragIssueTypes ==
    <<"i", "s", "s", "u", "e", " ", "t", "y", "p", "e", "s">>

\* text.includes(sub)
Contains(text, sub) ==
    \E i \in 0..(Len(text) - Len(sub)) : SubSeq(text, i + 1, i + Len(sub)) = sub

\* text.startsWith(prefix)
StartsWith(text, prefix) ==
    /\ Len(prefix) <= Len(text)
    /\ SubSeq(text, 1, Len(prefix)) = prefix

\* x || d for a text: absent and the empty text are falsy
OrText(x, d) == IF x = Absent \/ x = Some(<<>>) THEN d ELSE x[1]

----------------------------------------------------------------------------
(* The tracker integration: connectToJira and pushToJira *)

\* connect requests awaiting their response at once
MaxConnectInFlight == 2
\* calls of pushToJira in one behaviour
MaxPushes == 2

\* what the user types into the four fields of the modal
GoodSettings == [siteUrl |-> UrlHttps, email |-> "a@a.io", apiToken |-> "t",
                 projectKey |-> "REQ"]
SettingsInputs ==
    {GoodSettings,
     [GoodSettings EXCEPT !.siteUrl = UrlHttp, !.projectKey = "OPS"],
     [GoodSettings EXCEPT !.siteUrl = <<>>],
     [GoodSettings EXCEPT !.email = ""],
     [GoodSettings EXCEPT !.apiToken = ""],
     [GoodSettings EXCEPT !.projectKey = ""],
     [GoodSettings EXCEPT !.siteUrl = UrlFtp],
     [GoodSettings EXCEPT !.siteUrl = UrlBare],
     [GoodSettings EXCEPT !.siteUrl = UrlOneSlash]}

\* the check of the modal before it calls onConnect
ValidSettings_AnyUrl(settings) ==
    /\ settings.siteUrl # <<>>
    /\ settings.email # ""
    /\ settings.apiToken # ""
    /\ settings.projectKey # ""
ValidSettings(settings) ==
    /\ settings.siteUrl # <<>>
    /\ settings.email # ""
    /\ settings.apiToken # ""
    /\ settings.projectKey # ""
    /\ \/ StartsWith(settings.siteUrl, SchemeHttp)
       \/ StartsWith(settings.siteUrl, SchemeHttps)

\* response.data.error of POST /api/jira/connect: absent, empty or a text
ConnectErrors == {Absent, Some(""), Some("Invalid credentials")}

\* bodies of a 2xx answer to POST /api/jira/connect
ConnectResponses ==
    {[success |-> TRUE, error |-> Absent]}
        \cup {[success |-> FALSE, error |-> e] : e \in ConnectErrors}

GenericConnectError == "Jira connection failed. Please check your settings."

\* the requirement cards are rendered in the valid-project block, when the
\* list is not loading and not empty
CardsShown ==
    /\ isValidProjectId(selectedProject)
    /\ ~loading
    /\ Len(requirements) > 0

\* the push button of card i is rendered for an Approved requirement and
\* disabled while the tracker is not connected
PushEnabled_IgnoresConnection(i) ==
    /\ CardsShown
    /\ i \in 1..Len(requirements)
    /\ requirements[i].status = "Approved"
PushEnabled(i) ==
    /\ CardsShown
    /\ i \in 1..Len(requirements)
    /\ requirements[i].status = "Approved"
    /\ jiraSettings.isConnected

\* error texts of the tracker in a body of POST /api/jira/push
PushErrors == {Absent, Some(<<>>), Some(TokenExpired)}

\* bodies of a 2xx answer to POST /api/jira/push: the issue comes with
\* success = true
PushResponses ==
    {[success |-> TRUE, issue |-> Some([key |-> "REQ-1", url |-> "u"]),
      error |-> Absent]}
        \cup {[success |-> FALSE, issue |-> Absent, error |-> e] :
                e \in PushErrors}

\* rejections of POST /api/jira/push: error.response?.data?.error and
\* error.message
PushRejections ==
    {[error |-> Absent, message |-> TimeoutMessage],
     [error |-> Absent, message |-> NetworkMessage],
     [error |-> Some(KeyProjectKey \o KeyIssuetype), message |-> StatusMessage]}

\* lines 202-212: the three checks run in turn on the message as it grows
Classify_FirstMatchOnly(errorMessage) ==
    IF Contains(errorMessage, KeyUnauthorized)
    THEN errorMessage \o GuidanceReconnect
    ELSE IF Contains(errorMessage, KeyProjectKey)
    THEN errorMessage \o GuidanceProjectKey
    ELSE IF Contains(errorMessage, KeyIssuetype)
    THEN errorMessage \o GuidanceIssueTypes
    ELSE errorMessage
Classify(errorMessage) ==
    LET m1 == IF Contains(errorMessage, KeyUnauthorized)
              THEN errorMessage \o GuidanceReconnect ELSE errorMessage
        m2 == IF Contains(m1, KeyProjectKey)
              THEN m1 \o GuidanceProjectKey ELSE m1
        m3 == IF Contains(m2, KeyIssuetype)
              THEN m2 \o GuidanceIssueTypes ELSE m2
    IN m3

\* the terminal position of a call of pushToJira that got a 2xx body
Outcome(data) == IF data.success THEN "Succeeded" ELSE "Failed"

\* the query state, which the tracker integration never writes
query == <<requirements, overallStats, filteredStats, searchQuery, filters,
           loading, error, pagination, selectedProject, timers, inflight,
           statsInflight, nextId, changed, issuedSinceChange,
           toggledSincePage>>

\* the Jira button of the header (line 252)
openJiraModal ==
    /\ ~isJiraModalOpen
    /\ isJiraModalOpen' = TRUE
    /\ alertShown' = Absent
    /\ lastStep' = Step("openJiraModal", 0, Absent, 0)
    /\ UNCHANGED <<query, projects, jiraSettings, connectInflight,
                   pushAttempts, downloads>>

\* onClose of the modal (line 334)
closeJiraModal ==
    /\ isJiraModalOpen
    /\ isJiraModalOpen' = FALSE
    /\ alertShown' = Absent
    /\ lastStep' = Step("closeJiraModal", 0, Absent, 0)
    /\ UNCHANGED <<query, projects, jiraSettings, connectInflight,
                   pushAttempts, downloads>>

\* connectToJira up to its await: the POST is issued
connectToJira(settings) ==
    /\ Len(connectInflight) < MaxConnectInFlight
    /\ connectInflight' = Append(connectInflight, settings)
    /\ alertShown' = Absent
    /\ lastStep' = Step("connect", 0, settings, 0)
    /\ UNCHANGED <<query, projects, jiraSettings, isJiraModalOpen,
                   pushAttempts, downloads>>

\* the submit of the modal: onConnect is called with settings that pass the
\* check, nothing is sent otherwise
submitSettings(settings) ==
    /\ isJiraModalOpen
    /\ IF ValidSettings(settings)
       THEN connectToJira(settings)
       ELSE /\ alertShown' = Absent
            /\ lastStep' = Step("connectRejected", 0, settings, 0)
            /\ UNCHANGED <<query, projects, jiraSettings, isJiraModalOpen,
                           connectInflight, pushAttempts, downloads>>

\* connectToJira after its await, on a 2xx answer (lines 171-178)
ConnectResponse(i, data) ==
    /\ i \in 1..Len(connectInflight)
    /\ IF data.success
       THEN /\ jiraSettings' = [isConnected |-> TRUE,
                                projectKey |-> connectInflight[i].projectKey]
            /\ alertShown' = Some([kind |-> "connected",
                                   message |-> "Successfully connected to Jira!"])
            /\ isJiraModalOpen' = FALSE
       ELSE /\ alertShown' = Absent
            /\ UNCHANGED <<jiraSettings, isJiraModalOpen>>
    /\ connectInflight' = RemoveAt(connectInflight, i)
    /\ lastStep' = Step("connectResponse", 0, data, 0)
    /\ UNCHANGED <<query, projects, pushAttempts, downloads>>

\* connectToJira after its await, in its catch (lines 179-182)
ConnectFailure_Disconnects(i, e) ==
    /\ i \in 1..Len(connectInflight)
    /\ alertShown' = Some([kind |-> "connectFailed",
                           message |-> OrString(e, GenericConnectError)])
    /\ jiraSettings' = [isConnected |-> FALSE, projectKey |-> ""]
    /\ connectInflight' = RemoveAt(connectInflight, i)
    /\ lastStep' = Step("connectFailure", 0, e, 0)
    /\ UNCHANGED <<query, projects, isJiraModalOpen, pushAttempts, downloads>>
ConnectFailure(i, e) ==
    /\ i \in 1..Len(connectInflight)
    /\ alertShown' = Some([kind |-> "connectFailed",
                           message |-> OrString(e, GenericConnectError)])
    /\ connectInflight' = RemoveAt(connectInflight, i)
    /\ lastStep' = Step("connectFailure", 0, e, 0)
    /\ UNCHANGED <<query, projects, jiraSettings, isJiraModalOpen,
                   pushAttempts, downloads>>

\* pushToJira up to its await: the POST is issued
pushToJira(requirementId) ==
    /\ Len(pushAttempts) < MaxPushes
    /\ pushAttempts' = Append(pushAttempts,
                              [requirementId |-> requirementId,
                               pc |-> "Sending", posts |-> 1, alerts |-> 0])
    /\ alertShown' = Absent
    /\ lastStep' = Step("push", Len(pushAttempts) + 1, Absent, 0)
    /\ UNCHANGED <<query, projects, jiraSettings, isJiraModalOpen,
                   connectInflight, downloads>>

\* a click on the push button of card i (lines 456-465)
onPushToJira(i) ==
    /\ PushEnabled(i)
    /\ pushToJira(i)

\* the catch of pushToJira (lines 200-215)
PushCatch_Retries(k, e) ==
    /\ alertShown' = Absent
    /\ pushAttempts' = [pushAttempts EXCEPT ![k].posts = @ + 1]
PushCatch(k, e) ==
    /\ alertShown' =
          Some([kind |-> "pushFailed",
                text |-> PushFailedPrefix \o Classify(OrText(e.error, e.message))])
    /\ pushAttempts' = [pushAttempts EXCEPT ![k].pc = "Failed",
                                            ![k].alerts = @ + 1]

\* pushToJira after its await, on a 2xx answer (lines 195-199)
PushResponse(k, data) ==
    /\ k \in 1..Len(pushAttempts)
    /\ pushAttempts[k].pc = "Sending"
    /\ IF Outcome(data) = "Succeeded"
       THEN /\ alertShown' = Some([kind |-> "created", key |-> data.issue[1].key,
                                   url |-> data.issue[1].url])
            /\ pushAttempts' = [pushAttempts EXCEPT ![k].pc = "Succeeded",
                                                    ![k].alerts = @ + 1]
       ELSE \* throw new Error(response.data.error || 'Unknown error')
            PushCatch(k, [error |-> Absent,
                          message |-> OrText(data.error, UnknownError)])
    /\ lastStep' = Step("pushResponse", k, data, 0)
    /\ UNCHANGED <<query, projects, jiraSettings, isJiraModalOpen,
                   connectInflight, downloads>>

\* pushToJira after its await, when axios rejects: no answer, the timeout
\* or an error status
PushFailure(k, e) ==
    /\ k \in 1..Len(pushAttempts)
    /\ pushAttempts[k].pc = "Sending"
    /\ PushCatch(k, e)
    /\ lastStep' = Step("pushFailure", k, e, 0)
    /\ UNCHANGED <<query, projects, jiraSettings, isJiraModalOpen,
                   connectInflight, downloads>>

\* pages of requirements shown while the tracker is used
JiraLists == {<<"Draft">>, <<"Approved", "Draft">>,
              <<"Review", "Disapproved", "Approved">>}

\* project 1 is selected and its first list request was answered by one of
\* the pages
InitJira ==
    /\ requirements \in {Records(l, JSNum(1)) : l \in JiraLists}
    /\ overallStats = ServerStats(JSNum(1))
    /\ filteredStats = newFilteredStats(requirements)
    /\ searchQuery = ""
    /\ filters = NoFilters
    /\ loading = FALSE
    /\ error = ""
    /\ pagination = [page |-> 1, pages |-> 1, total |-> 0]
    /\ selectedProject = JSNum(1)
    /\ timers = {}
    /\ inflight = {}
    /\ statsInflight = <<>>
    /\ nextId = 2
    /\ lastStep = Step("listSuccess", 1, Absent, 0)
    /\ changed = TRUE
    /\ issuedSinceChange = 1
    /\ toggledSincePage = Absent
    /\ NoIntegration

NextJira ==
    \/ openJiraModal
    \/ closeJiraModal
    \/ \E settings \in SettingsInputs : submitSettings(settings)
    \/ \E i \in 1..MaxConnectInFlight, data \in ConnectResponses :
          ConnectResponse(i, data)
    \/ \E i \in 1..MaxConnectInFlight, e \in ConnectErrors :
          ConnectFailure(i, e)
    \/ \E i \in 1..Len(requirements) : onPushToJira(i)
    \/ \E k \in 1..MaxPushes, data \in PushResponses : PushResponse(k, data)
    \/ \E k \in 1..MaxPushes, e \in PushRejections : PushFailure(k, e)

SpecJira == InitJira /\ [][NextJira]_vars

----------------------------------------------------------------------------
(* The classification of push errors, on texts put together from fragments *)

\* fragments in one error text
MaxFragments == 3

Fragments == {KeyUnauthorized, KeyProjectKey, KeyIssuetype, FragProject,
              FragKey, FragIssueTypes}

RECURSIVE Concatenations(_)
Concatenations(n) ==
    IF n = 0 THEN {<<>>}
    ELSE LET shorter == Concatenations(n - 1)
         IN shorter \cup {t \o f : t \in shorter, f \in Fragments}

\* raw error texts of a failed push
ClassifyTexts == Concatenations(MaxFragments)

\* the tracker is connected and the push of the Approved first card is
\* awaiting its response
InitClassify ==
    /\ requirements = Records(<<"Approved", "Draft">>, JSNum(1))
    /\ overallStats = ServerStats(JSNum(1))
    /\ filteredStats = newFilteredStats(requirements)
    /\ searchQuery = ""
    /\ filters = NoFilters
    /\ loading = FALSE
    /\ error = ""
    /\ pagination = [page |-> 1, pages |-> 1, total |-> 0]
    /\ selectedProject = JSNum(1)
    /\ timers = {}
    /\ inflight = {}
    /\ statsInflight = <<>>
    /\ nextId = 2
    /\ changed = TRUE
    /\ issuedSinceChange = 1
    /\ toggledSincePage = Absent
    /\ projects = ProjectList
    /\ jiraSettings = [isConnected |-> TRUE, projectKey |-> "REQ"]
    /\ isJiraModalOpen = FALSE
    /\ connectInflight = <<>>
    /\ pushAttempts = <<[requirementId |-> 1, pc |-> "Sending", posts |-> 1,
                         alerts |-> 0]>>
    /\ alertShown = Absent
    /\ downloads = <<>>
    /\ lastStep = Step("push", 1, Absent, 0)

NextClassify ==
    \E t \in ClassifyTexts :
        \/ PushResponse(1, [success |-> FALSE, issue |-> Absent,
                            error |-> Some(t)])
        \/ PushFailure(1, [error |-> Some(t), message |-> StatusMessage])
        \/ PushFailure(1, [error |-> Absent, message |-> t])

SpecClassify == InitClassify /\ [][NextClassify]_vars

----------------------------------------------------------------------------
(* The push attempts alone, once the tracker is connected.  Every push    *)
(* settles: axios rejects a request that is unanswered after 30000 ms.    *)

\* the tracker was connected with the key REQ by the step just taken
InitPush ==
    /\ requirements \in {Records(l, JSNum(1)) : l \in JiraLists}
    /\ overallStats = ServerStats(JSNum(1))
    /\ filteredStats = newFilteredStats(requirements)
    /\ searchQuery = ""
    /\ filters = NoFilters
    /\ loading = FALSE
    /\ error = ""
    /\ pagination = [page |-> 1, pages |-> 1, total |-> 0]
    /\ selectedProject = JSNum(1)
    /\ timers = {}
    /\ inflight = {}
    /\ statsInflight = <<>>
    /\ nextId = 2
    /\ changed = TRUE
    /\ issuedSinceChange = 1
    /\ toggledSincePage = Absent
    /\ projects = ProjectList
    /\ jiraSettings = [isConnected |-> TRUE, projectKey |-> "REQ"]
    /\ isJiraModalOpen = FALSE
    /\ connectInflight = <<>>
    /\ pushAttempts = <<>>
    /\ alertShown = Some([kind |-> "connected",
                          message |-> "Successfully connected to Jira!"])
    /\ downloads = <<>>
    /\ lastStep = Step("connectResponse", 0,
                       [success |-> TRUE, error |-> Absent], 0)

PushSettles(k) ==
    \/ \E data \in PushResponses : PushResponse(k, data)
    \/ \E e \in PushRejections : PushFailure(k, e)

NextPush ==
    \/ \E i \in 1..Len(requirements) : onPushToJira(i)
    \/ \E k \in 1..MaxPushes : PushSettles(k)

SpecPush ==
    /\ InitPush
    /\ [][NextPush]_vars
    /\ \A k \in 1..MaxPushes : WF_vars(PushSettles(k))

----------------------------------------------------------------------------
(* exportData: the CSV document and its download *)

\* files downloaded in one behaviour
MaxDownloads == 2

\* a value of the status, priority or complexity field, as text
WordText(s) ==
    CASE s = "Draft" -> <<"D", "r", "a", "f", "t">>
      [] s = "Review" -> <<"R", "e", "v", "i", "e", "w">>
      [] s = "Approved" -> <<"A", "p", "p", "r", "o", "v", "e", "d">>
      [] s = "Disapproved" -> <<"D", "i", "s", "a", "p", "p", "r", "o", "v", "e", "d">>
      [] s = "Low" -> <<"L", "o", "w">>
      [] s = "Moderate" -> <<"M", "o", "d", "e", "r", "a", "t", "e">>
      [] s = "Medium" -> <<"M", "e", "d", "i", "u", "m">>
      [] s = "High" -> <<"H", "i", "g", "h">>

\* the decimal digits of a natural number
RECURSIVE DecimalText(_)
DecimalText(n) ==
    LET d == <<"0", "1", "2", "3", "4", "5", "6", "7", "8", "9">>
    IN IF n < 10 THEN <<d[n + 1]>>
       ELSE DecimalText(n \div 10) \o <<d[(n % 10) + 1]>>

\* String(n) for an integer
IntegerText(n) == IF n < 0 THEN <<"-">> \o DecimalText(-n) ELSE DecimalText(n)

\* x.toFixed(2) for an integer or NaN
toFixed(x) ==
    IF x = JSNaN THEN <<"N", "a", "N">>
    ELSE IntegerText(x.value) \o <<".", "0", "0">>

\* `$${x.toFixed(2)}`
Dollars(x) == <<"$">> \o toFixed(x)

\* an element of an array in join: undefined gives the empty text
CellText(x) ==
    IF x = Absent THEN <<>> ELSE IntegerText(x[1])

\* cells.join(sep)
RECURSIVE Join(_, _)
Join(cells, sep) ==
    IF Len(cells) = 0 THEN <<>>
    ELSE IF Len(cells) = 1 THEN cells[1]
    ELSE cells[1] \o sep \o Join(Tail(cells), sep)

\* text.replace(/"/g, '""')
DoubleQuotes_Keeps(text) == text
RECURSIVE DoubleQuotes(_)
DoubleQuotes(text) ==
    IF text = <<>> THEN <<>>
    ELSE (IF Head(text) = "\"" THEN <<"\"", "\"">> ELSE <<Head(text)>>)
             \o DoubleQuotes(Tail(text))

\* `"${req.requirement.replace(/"/g, '""')}"`
Quoted(text) == <<"\"">> \o DoubleQuotes(text) \o <<"\"">>

\* text.split('T')[0]
RECURSIVE BeforeT(_)
BeforeT(text) ==
    IF text = <<>> \/ Head(text) = "T" THEN <<>>
    ELSE <<Head(text)>> \o BeforeT(Tail(text))

\* new Date(date).toISOString() for a date in UTC: a date without a time
\* is midnight
toISOString(date) ==
    IF Contains(date, <<"T">>) THEN date
    ELSE date \o <<"T", "0", "0", ":", "0", "0", ":", "0", "0", ".",
                   "0", "0", "0", "Z">>

AlphaNumeric ==
    {"a", "b", "c", "d", "e", "f", "g", "h", "i", "j", "k", "l", "m",
     "n", "o", "p", "q", "r", "s", "t", "u", "v", "w", "x", "y", "z",
     "A", "B", "C", "D", "E", "F", "G", "H", "I", "J", "K", "L", "M",
     "N", "O", "P", "Q", "R", "S", "T", "U", "V", "W", "X", "Y", "Z",
     "0", "1", "2", "3", "4", "5", "6", "7", "8", "9"}

\* name.replace(/[^a-z0-9]/gi, '_')
Sanitized(name) ==
    [i \in 1..Len(name) |-> IF name[i] \in AlphaNumeric THEN name[i] ELSE "_"]

\* projects.find(p => p.id === selectedProject), line 23
selectedProjectData ==
    LET found == SelectSeq(projects,
                           LAMBDA p : selectedProject = JSNum(p.id))
    IN IF found = <<>> THEN Absent ELSE Some(found[1])

\* selectedProjectData?.hourly_rate || 0, line 24
hourlyRate ==
    IF selectedProjectData = Absent THEN 0
    ELSE OrNumber(selectedProjectData[1].hourly_rate, 0)

\* requirements.reduce((sum, req) => sum + (req.estimated_time || 0), 0)
RECURSIVE TotalHours(_)
TotalHours(reqs) ==
    IF reqs = <<>> THEN 0
    ELSE OrNumber(Head(reqs).estimated_time, 0) + TotalHours(Tail(reqs))

\* req.estimated_time * hourlyRate: undefined times a number is NaN
Cost(req) ==
    IF req.estimated_time = Absent THEN JSNaN
    ELSE JSNum(req.estimated_time[1] * hourlyRate)

HeaderRow ==
    <<<<"I", "D">>,
      <<"R", "e", "q", "u", "i", "r", "e", "m", "e", "n", "t">>,
      <<"S", "t", "a", "t", "u", "s">>,
      <<"P", "r", "i", "o", "r", "i", "t", "y">>,
      <<"C", "o", "m", "p", "l", "e", "x", "i", "t", "y">>,
      <<"A", "u", "t", "h", "o", "r">>,
      <<"D", "a", "t", "e">>,
      <<"H", "o", "u", "r", "s">>,
      <<"C", "o", "s", "t">>,
      <<"C", "o", "s", "t", "/", "H", "o", "u", "r">>>>

RequirementRow(req) ==
    <<IntegerText(req.id), Quoted(req.requirement), WordText(req.status),
      WordText(req.priority), WordText(req.complexity), req.author,
      BeforeT(toISOString(req.date)), CellText(req.estimated_time),
      Dollars(Cost(req)), Dollars(JSNum(hourlyRate))>>

\* lines 132-156
csvContent_NoBlankBeforeTotals ==
    LET rows ==
          <<<<<<"P", "r", "o", "j", "e", "c", "t", " ", "N", "a", "m", "e">>,
              selectedProjectData[1].name>>,
            <<<<"H", "o", "u", "r", "l", "y", " ", "R", "a", "t", "e">>,
              Dollars(JSNum(hourlyRate))>>,
            <<>>,
            HeaderRow>>
          \o [i \in 1..Len(requirements) |-> RequirementRow(requirements[i])]
          \o <<<<<<"T", "o", "t", "a", "l", " ", "H", "o", "u", "r", "s">>,
                 IntegerText(TotalHours(requirements))>>,
               <<<<"T", "o", "t", "a", "l", " ", "C", "o", "s", "t">>,
                 Dollars(JSNum(TotalHours(requirements) * hourlyRate))>>>>
    IN Join([i \in 1..Len(rows) |-> Join(rows[i], <<",">>)], <<"\n">>)
csvContent ==
    LET rows ==
          <<<<<<"P", "r", "o", "j", "e", "c", "t", " ", "N", "a", "m", "e">>,
              selectedProjectData[1].name>>,
            <<<<"H", "o", "u", "r", "l", "y", " ", "R", "a", "t", "e">>,
              Dollars(JSNum(hourlyRate))>>,
            <<>>,
            HeaderRow>>
          \o [i \in 1..Len(requirements) |-> RequirementRow(requirements[i])]
          \o <<<<>>,
               <<<<"T", "o", "t", "a", "l", " ", "H", "o", "u", "r", "s">>,
                 IntegerText(TotalHours(requirements))>>,
               <<<<"T", "o", "t", "a", "l", " ", "C", "o", "s", "t">>,
                 Dollars(JSNum(TotalHours(requirements) * hourlyRate))>>>>
    IN Join([i \in 1..Len(rows) |-> Join(rows[i], <<",">>)], <<"\n">>)

\* `requirements_${projectName}_export.csv`
FileName ==
    <<"r", "e", "q", "u", "i", "r", "e", "m", "e", "n", "t", "s", "_">>
        \o Sanitized(selectedProjectData[1].name)
        \o <<"_", "e", "x", "p", "o", "r", "t", ".", "c", "s", "v">>

\* the export button of the header is disabled while the list is empty or
\* loading (line 247)
ExportEnabled_WhenNotLoading == ~loading
ExportEnabled == Len(requirements) # 0 /\ ~loading

\* lines 126-165
exportData ==
    IF selectedProjectData = Absent
    THEN UNCHANGED downloads
    ELSE downloads' = Append(downloads,
                             [download |-> FileName, content |-> csvContent])

\* a click on the export button; a disabled button runs no handler
exportClick ==
    /\ Len(downloads) < MaxDownloads
    /\ IF ExportEnabled THEN exportData ELSE UNCHANGED downloads
    /\ alertShown' = Absent
    /\ lastStep' = Step("export", 0, Absent, 0)
    /\ UNCHANGED <<query, projects, jiraSettings, isJiraModalOpen,
                   connectInflight, pushAttempts>>

\* projects and pages of requirements to export
ExportProjects ==
    {[id |-> 1, name |-> <<"A", "c", "m", "e", " ", "C", "o">>,
      hourly_rate |-> Some(50)],
     [id |-> 1, name |-> <<"A", "l", "p", "h", "a">>, hourly_rate |-> Absent]}

FirstRecord ==
    [id |-> 1,
     requirement |-> <<"H", "e", " ", "s", "a", "i", "d", " ", "\"", "h", "i", "\"">>,
     status |-> "Approved", priority |-> "High", complexity |-> "Low",
     author |-> <<"J", "o">>,
     date |-> <<"2", "0", "2", "4", "-", "0", "1", "-", "0", "5">>,
     estimated_time |-> Some(2), project |-> JSNum(1)]
SecondRecord ==
    [id |-> 2,
     requirement |-> <<"a", ",", "b">>,
     status |-> "Draft", priority |-> "Medium", complexity |-> "Moderate",
     author |-> <<"L", "i">>,
     date |-> <<"2", "0", "2", "4", "-", "0", "2", "-", "2", "9", "T", "1", "0", ":", "0", "0", ":", "0", "0", ".", "0", "0", "0", "Z">>,
     estimated_time |-> Absent, project |-> JSNum(1)]
ExportLists == {<<>>, <<FirstRecord>>, <<FirstRecord, SecondRecord>>}

\* the project <select>: no project, or project 1
ExportSelectValues == {<<>>, <<"1">>}

\* project 1 is selected and its first list request was answered by one of
\* the pages
InitExport ==
    /\ requirements \in ExportLists
    /\ overallStats = ServerStats(JSNum(1))
    /\ filteredStats = newFilteredStats(requirements)
    /\ searchQuery = ""
    /\ filters = NoFilters
    /\ loading = FALSE
    /\ error = ""
    /\ pagination = [page |-> 1, pages |-> 1, total |-> 0]
    /\ selectedProject = JSNum(1)
    /\ timers = {}
    /\ inflight = {}
    /\ statsInflight = <<>>
    /\ nextId = 2
    /\ lastStep = Step("listSuccess", 1, Absent, 0)
    /\ changed = TRUE
    /\ issuedSinceChange = 1
    /\ toggledSincePage = Absent
    /\ projects \in {<<p>> : p \in ExportProjects}
    /\ jiraSettings = [isConnected |-> FALSE, projectKey |-> ""]
    /\ isJiraModalOpen = FALSE
    /\ connectInflight = <<>>
    /\ pushAttempts = <<>>
    /\ alertShown = Absent
    /\ downloads = <<>>

\* the export next to the project selection and the debounced fetch it
\* schedules
NextExport ==
    \/ exportClick
    \/ \E value \in ExportSelectValues : handleProjectChange(value)
    \/ \E t \in timers : TimerFiresSuppressed(t)
    \/ \E t \in timers : TimerFiresIssues(t)

SpecExport == InitExport /\ [][NextExport]_vars

----------------------------------------------------------------------------
(* The export of one requirement, on every short text over four characters *)

\* characters of one requirement text
MaxText == 3

TextAlphabet == {"a", "\"", ",", "\n"}

RECURSIVE TextsUpTo(_)
TextsUpTo(n) ==
    IF n = 0 THEN {<<>>}
    ELSE LET shorter == TextsUpTo(n - 1)
         IN shorter \cup {Append(t, c) : t \in shorter, c \in TextAlphabet}

\* project 1 is selected and its first list request was answered by a page
\* of one record
InitQuote ==
    /\ requirements \in {<<[FirstRecord EXCEPT !.requirement = t]>> :
                            t \in TextsUpTo(MaxText)}
    /\ overallStats = ServerStats(JSNum(1))
    /\ filteredStats = newFilteredStats(requirements)
    /\ searchQuery = ""
    /\ filters = NoFilters
    /\ loading = FALSE
    /\ error = ""
    /\ pagination = [page |-> 1, pages |-> 1, total |-> 0]
    /\ selectedProject = JSNum(1)
    /\ timers = {}
    /\ inflight = {}
    /\ statsInflight = <<>>
    /\ nextId = 2
    /\ lastStep = Step("listSuccess", 1, Absent, 0)
    /\ changed = TRUE
    /\ issuedSinceChange = 1
    /\ toggledSincePage = Absent
    /\ NoIntegration

NextQuote == exportClick

SpecQuote == InitQuote /\ [][NextQuote]_vars

----------------------------------------------------------------------------
(* The cost summaries, on every short list of hours and two projects *)

\* records in a list whose costs are computed
MaxCostReqs == 2

\* lines 28-34
calculateCosts_AddsRate(reqs) ==
    [totalHours |-> TotalHours(reqs),
     totalCost |-> TotalHours(reqs) + hourlyRate]
calculateCosts(reqs) ==
    [totalHours |-> TotalHours(reqs),
     totalCost |-> TotalHours(reqs) * hourlyRate]

\* lines 36-37: computed on every render
currentCosts == calculateCosts(requirements)
overallCosts_OfNothing == calculateCosts(<<>>)
overallCosts == calculateCosts(requirements)

\* estimated_time of a record and hourly_rate of a project, as the server
\* sends them: missing, zero, positive, negative
HoursValues == {Absent, Some(0), Some(2), Some(-3)}
RateValues == {Absent, Some(0), Some(50), Some(100), Some(-10)}

CostLists ==
    UNION {{[i \in 1..n |-> [FirstRecord EXCEPT !.id = i,
                                                !.estimated_time = hs[i]]] :
               hs \in [1..n -> HoursValues]} : n \in 0..MaxCostReqs}

CostProjects ==
    {<<[id |-> 1, name |-> <<"A", "l", "p", "h", "a">>, hourly_rate |-> r1],
       [id |-> 2, name |-> <<"B", "e", "t", "a">>, hourly_rate |-> r2]>> :
        r1 \in RateValues, r2 \in RateValues}

CostSelectValues == {<<>>, <<"1">>, <<"2">>}

\* project 1 is selected and its first list request was answered by one of
\* the lists
InitCosts ==
    /\ requirements \in CostLists
    /\ overallStats = ServerStats(JSNum(1))
    /\ filteredStats = newFilteredStats(requirements)
    /\ searchQuery = ""
    /\ filters = NoFilters
    /\ loading = FALSE
    /\ error = ""
    /\ pagination = [page |-> 1, pages |-> 1, total |-> 0]
    /\ selectedProject = JSNum(1)
    /\ timers = {}
    /\ inflight = {}
    /\ statsInflight = <<>>
    /\ nextId = 2
    /\ lastStep = Step("listSuccess", 1, Absent, 0)
    /\ changed = TRUE
    /\ issuedSinceChange = 1
    /\ toggledSincePage = Absent
    /\ projects \in CostProjects
    /\ jiraSettings = [isConnected |-> FALSE, projectKey |-> ""]
    /\ isJiraModalOpen = FALSE
    /\ connectInflight = <<>>
    /\ pushAttempts = <<>>
    /\ alertShown = Absent
    /\ downloads = <<>>

\* the rate changes with the project, the list with a failed list request;
\* the project is changed while fewer than MaxStatsInFlight stats requests
\* are in flight
NextCosts ==
    \/ \E value \in CostSelectValues :
          /\ Len(statsInflight) < MaxStatsInFlight
          /\ handleProjectChange(value)
    \/ \E t \in timers : TimerFiresSuppressed(t)
    \/ \E t \in timers : TimerFiresIssues(t)
    \/ \E r \in inflight : ListFailure(r, Absent)
    \/ \E i \in 1..Len(statsInflight) : StatsSuccess(i)

SpecCosts == InitCosts /\ [][NextCosts]_vars

----------------------------------------------------------------------------
(* Every handler of the page around one shown list: the query controls, the
   tracker integration and the export *)

\* the body of a successful GET /api/requirements that holds no field
EmptyResponse ==
    [requirements |-> Absent, page |-> Absent, pages |-> Absent,
     total |-> Absent]

\* the body of a 2xx answer to POST /api/jira/push that reports an issue
IssueCreated ==
    [success |-> TRUE, issue |-> Some([key |-> "REQ-1", url |-> "u"]),
     error |-> Absent]

\* project 1 is selected and its first list request was answered by the
\* first of two pages
InitAll ==
    /\ requirements = <<FirstRecord, SecondRecord>>
    /\ overallStats = ServerStats(JSNum(1))
    /\ filteredStats = newFilteredStats(requirements)
    /\ searchQuery = ""
    /\ filters = NoFilters
    /\ loading = FALSE
    /\ error = ""
    /\ pagination = [page |-> 1, pages |-> 2, total |-> 3]
    /\ selectedProject = JSNum(1)
    /\ timers = {}
    /\ inflight = {}
    /\ statsInflight = <<>>
    /\ nextId = 2
    /\ lastStep = Step("listSuccess", 1, Absent, 0)
    /\ changed = TRUE
    /\ issuedSinceChange = 1
    /\ toggledSincePage = Absent
    /\ projects = ProjectList
    /\ jiraSettings = [isConnected |-> FALSE, projectKey |-> ""]
    /\ isJiraModalOpen = FALSE
    /\ connectInflight = <<>>
    /\ pushAttempts = <<>>
    /\ alertShown = Absent
    /\ downloads = <<>>

\* the tracker is connected once, and a push is started when no other push
\* is being sent
NextAll ==
    \/ \E value \in ExportSelectValues : handleProjectChange(value)
    \/ setSearchQuery("login")
    \/ \E f \in FilterInputs : handleFilterChange(f[1], f[2])
    \/ NextPage
    \/ \E t \in timers : TimerFiresSuppressed(t)
    \/ \E t \in timers : TimerFiresIssues(t)
    \/ \E r \in inflight : ListSuccess(r, EmptyResponse)
    \/ \E r \in inflight : ListFailure(r, Absent)
    \/ \E i \in 1..Len(statsInflight) : StatsSuccess(i)
    \/ openJiraModal
    \/ /\ connectInflight = <<>>
       /\ ~jiraSettings.isConnected
       /\ submitSettings(GoodSettings)
    \/ \E i \in 1..MaxConnectInFlight :
          ConnectResponse(i, [success |-> TRUE, error |-> Absent])
    \/ \E i \in 1..Len(requirements) :
          /\ \A k \in 1..Len(pushAttempts) : pushAttempts[k].pc # "Sending"
          /\ onPushToJira(i)
    \/ \E k \in 1..MaxPushes : PushResponse(k, IssueCreated)
    \/ exportClick

SpecAll == InitAll /\ [][NextAll]_vars

----------------------------------------------------------------------------
(* The page of the list requests, with a server that answers the page it
   was asked for *)

\* the body of a successful GET /api/requirements?page=n
PageResponse(r) ==
    [requirements |-> Some(<<"Approved", "Draft">>), page |-> Some(r.deps.page),
     pages |-> Some(MaxPage), total |-> Some(3)]

\* project 1 is selected and the first of MaxPage pages is shown; the list
\* requests are numbered from here, and the filter toggles and page clicks
\* are recorded
InitPage ==
    /\ requirements = Records(<<"Approved", "Draft">>, JSNum(1))
    /\ overallStats = ServerStats(JSNum(1))
    /\ filteredStats = newFilteredStats(requirements)
    /\ searchQuery = ""
    /\ filters = NoFilters
    /\ loading = FALSE
    /\ error = ""
    /\ pagination = [page |-> 1, pages |-> MaxPage, total |-> 3]
    /\ selectedProject = JSNum(1)
    /\ timers = {}
    /\ inflight = {}
    /\ statsInflight = <<>>
    /\ nextId = 1
    /\ lastStep = Step("listSuccess", 0, Absent, 0)
    /\ changed = TRUE
    /\ issuedSinceChange = 1
    /\ toggledSincePage = Some(FALSE)
    /\ NoIntegration

NextPageRequests ==
    \/ \E f \in FilterInputs : handleFilterChange(f[1], f[2])
    \/ PreviousPage
    \/ NextPage
    \/ \E t \in timers : TimerFiresIssues(t)
    \/ \E r \in inflight : ListSuccess(r, PageResponse(r))
    \/ \E r \in inflight : ListFailure(r, Absent)

SpecPage == InitPage /\ [][NextPageRequests]_vars

----------------------------------------------------------------------------
(* The export while the project is switched between two projects *)

\* the options of the project <select>: two projects
TwoProjects ==
    <<[id |-> 1, name |-> <<"A", "l", "p", "h", "a">>, hourly_rate |-> Some(50)],
      [id |-> 2, name |-> <<"B", "e", "t", "a">>, hourly_rate |-> Some(100)]>>

\* project 1 is selected and its first list request was answered by one of
\* the pages
InitSwitch ==
    /\ requirements \in ExportLists
    /\ overallStats = ServerStats(JSNum(1))
    /\ filteredStats = newFilteredStats(requirements)
    /\ searchQuery = ""
    /\ filters = NoFilters
    /\ loading = FALSE
    /\ error = ""
    /\ pagination = [page |-> 1, pages |-> 1, total |-> 0]
    /\ selectedProject = JSNum(1)
    /\ timers = {}
    /\ inflight = {}
    /\ statsInflight = <<>>
    /\ nextId = 2
    /\ lastStep = Step("listSuccess", 1, Absent, 0)
    /\ changed = TRUE
    /\ issuedSinceChange = 1
    /\ toggledSincePage = Absent
    /\ projects = TwoProjects
    /\ jiraSettings = [isConnected |-> FALSE, projectKey |-> ""]
    /\ isJiraModalOpen = FALSE
    /\ connectInflight = <<>>
    /\ pushAttempts = <<>>
    /\ alertShown = Absent
    /\ downloads = <<>>

NextSwitch ==
    \/ \E value \in CostSelectValues : handleProjectChange(value)
    \/ \E t \in timers : TimerFiresSuppressed(t)
    \/ \E t \in timers : TimerFiresIssues(t)
    \/ \E r \in inflight : ListSuccess(r, EmptyResponse)
    \/ \E r \in inflight : ListFailure(r, Absent)
    \/ \E i \in 1..Len(statsInflight) : StatsSuccess(i)
    \/ exportClick

SpecSwitch == InitSwitch /\ [][NextSwitch]_vars

----------------------------------------------------------------------------
(* A project change whose stats request fails and whose list request
   succeeds *)

NextStatsError ==
    \/ \E value \in SelectValues : handleProjectChange(value)
    \/ \E t \in timers : TimerFiresSuppressed(t)
    \/ \E t \in timers : TimerFiresIssues(t)
    \/ \E r \in inflight, data \in ListResponses : ListSuccess(r, data)
    \/ \E i \in 1..Len(statsInflight) : StatsFailure(i)

SpecStatsError == Init /\ [][NextStatsError]_vars

----------------------------------------------------------------------------
(* The debounced fetch left to run: at most MaxRequests list requests are in
   flight at once, every request is answered with the page it asked for and
   every timer fires *)

\* a debounce timer fires and fetchRequirements runs up to its await; the
\* request takes the least number that no request in flight carries
TimerFiresReusingId(t) ==
    LET free == {id \in 1..MaxRequests : \A r \in inflight : r.id # id}
        id == CHOOSE i \in free : \A j \in free : i <= j
    IN  /\ t \in timers
        /\ isValidProjectId(t.project)
        /\ free # {}
        /\ timers' = timers \ {t}
        /\ loading' = TRUE
        /\ error' = ""
        /\ inflight' = inflight \cup {[id |-> id, deps |-> t]}
        /\ issuedSinceChange' = issuedSinceChange + 1
        /\ UNCHANGED toggledSincePage
        /\ UNCHANGED integration
        /\ lastStep' = Step("fetchIssued", id, Absent, 0)
        /\ UNCHANGED <<requirements, overallStats, filteredStats, searchQuery,
                       filters, pagination, selectedProject, statsInflight,
                       nextId, changed>>

\* the response of the request numbered id arrives
Answer(id) ==
    \E r \in inflight : r.id = id /\ ListSuccess(r, PageResponse(r))

NextSettle ==
    \/ \E f \in FilterInputs : handleFilterChange(f[1], f[2])
    \/ PreviousPage
    \/ NextPage
    \/ \E t \in timers : TimerFiresReusingId(t)
    \/ \E id \in 1..MaxRequests : Answer(id)

SpecSettle ==
    /\ InitPage
    /\ [][NextSettle]_vars
    /\ WF_vars(\E t \in timers : TimerFiresReusingId(t))
    /\ \A id \in 1..MaxRequests : WF_vars(Answer(id))

----------------------------------------------------------------------------
(* The filter toggle, on every option of two categories and one of a third *)

\* the checkboxes toggled: options of FiltersSidebar
ToggleInputs == {<<"type", "Functional">>, <<"type", "UI">>,
                 <<"type", "Security">>, <<"status", "Review">>,
                 <<"status", "Approved">>, <<"complexity", "Low">>}

\* project 1 is selected and its first list request was answered by an
\* empty body
InitToggle ==
    /\ requirements = <<>>
    /\ overallStats = ServerStats(JSNum(1))
    /\ filteredStats = NoStats
    /\ searchQuery = ""
    /\ filters = NoFilters
    /\ loading = FALSE
    /\ error = ""
    /\ pagination = [page |-> 1, pages |-> 1, total |-> 0]
    /\ selectedProject = JSNum(1)
    /\ timers = {}
    /\ inflight = {}
    /\ statsInflight = <<>>
    /\ nextId = 2
    /\ lastStep = Step("listSuccess", 1,
                       [requirements |-> Absent, page |-> Absent,
                        pages |-> Absent, total |-> Absent], 0)
    /\ changed = TRUE
    /\ issuedSinceChange = 1
    /\ toggledSincePage = Absent
    /\ NoIntegration

NextToggle == \E f \in ToggleInputs : handleFilterChange(f[1], f[2])

SpecToggle == InitToggle /\ [][NextToggle]_vars

----------------------------------------------------------------------------
(* Vocabulary of the properties *)

PositiveInteger(id) == id.type = "number" /\ id.value \in Nat \ {0}

DepsNow == Deps(selectedProject, searchQuery, filters, pagination)

\* the list requests whose response the step processes
Answered == inflight \ inflight'

\* the step issues a list request
Issues == nextId' # nextId

\* a newer list fetch has been scheduled or issued after r was issued
Superseded(r) == r.id # nextId - 1 \/ timers # {}

\* number of indices of a sequence of records whose status is s
RECURSIVE StatusCount(_, _)
StatusCount(reqs, s) ==
    IF reqs = <<>> THEN 0
    ELSE (IF Head(reqs).status = s THEN 1 ELSE 0) + StatusCount(Tail(reqs), s)

----------------------------------------------------------------------------
(* Properties *)

\* C1: processing the response (success or failure) of a list request that
\* has been superseded changes none of requirements, filteredStats,
\* pagination and error.
C1_StaleResponseDiscarded ==
    [][\A r \in Answered :
          Superseded(r) =>
              UNCHANGED <<requirements, filteredStats, pagination, error>>]_vars

\* C2 as stated: once the last timer of a burst of changes has fired, exactly
\* one list request has been issued since the last change.
C2_ExactlyOneRequestPerBurst ==
    (changed /\ timers = {}) => issuedSinceChange = 1

\* C2 as amended: at most one debounce timer is pending and it carries the
\* project, search text, filters and page of the current state; every change
\* of one of them replaces the pending timer by a new one; a request that is
\* issued carries them as they are; and once the last timer of a burst has
\* fired, exactly one list request has been issued since the last change if
\* the selected project is valid, and none otherwise.
C2_DebounceCoalescing ==
    /\ [](/\ Cardinality(timers) <= 1
          /\ \A t \in timers : t = DepsNow
          /\ (changed /\ timers = {}) =>
                issuedSinceChange =
                    IF PositiveInteger(selectedProject) THEN 1 ELSE 0)
    /\ [][/\ DepsNow' # DepsNow => timers' = {DepsNow'}
          /\ Issues => \E r \in inflight' \ inflight : r.deps = DepsNow]_vars

\* C2 witness: project chosen, search text typed and filter toggled in one
\* burst, and a single request, carrying all three, has been issued.
C2_Witness ==
    /\ nextId = 2
    /\ timers = {}
    /\ issuedSinceChange = 1
    /\ toggledSincePage = Absent
    /\ \E r \in inflight :
          /\ r.deps.search = "login"
          /\ r.deps.filters.status = <<"Approved">>
          /\ r.deps = DepsNow

\* C3: a change of the search text or of the selected project resets
\* pagination.page to 1 in the same step.
C3_SearchOrProjectChangeResetsPage ==
    [][(searchQuery' # searchQuery \/ selectedProject' # selectedProject) =>
          pagination'.page = 1]_vars

\* C4: a filter toggle resets pagination.page to 1 in the same step and
\* leaves pagination.pages and pagination.total unchanged.
C4_FilterToggleResetsPage ==
    [][filters' # filters =>
          /\ pagination'.page = 1
          /\ pagination'.pages = pagination.pages
          /\ pagination'.total = pagination.total]_vars

\* C4 witness: a filter was toggled while a page other than 1 was shown.
C4_Witness ==
    /\ lastStep.op = "filter"
    /\ lastStep.page > 1
    /\ pagination.page = 1
    /\ pagination.pages > 1

\* C5: the selected project is null or a positive integer; a list request or
\* an overall-stats request is issued only for a positive integer project;
\* a fetch suppressed for an invalid project changes neither error nor
\* loading.
C5_InvalidProjectSuppressesFetches ==
    /\ [](selectedProject = JSNull \/ PositiveInteger(selectedProject))
    /\ [][/\ Issues =>
                /\ PositiveInteger(selectedProject)
                /\ \A r \in inflight' \ inflight :
                      PositiveInteger(r.deps.project)
          /\ Len(statsInflight') > Len(statsInflight) =>
                /\ PositiveInteger(selectedProject')
                /\ statsInflight'[Len(statsInflight')] = selectedProject'
          /\ ~PositiveInteger(selectedProject') =>
                /\ ~Issues
                /\ Len(statsInflight') <= Len(statsInflight)
          /\ (lastStep'.op = "fetchSuppressed"
                \/ (lastStep'.op = "project"
                      /\ ~PositiveInteger(selectedProject'))) =>
                /\ error' = error
                /\ loading' = loading
                /\ inflight' = inflight
                /\ statsInflight' = statsInflight]_vars

\* C5 witness: the debounce timer fired while no project was selected and
\* the fetch was suppressed, the error of an earlier failure still standing.
C5_Witness ==
    /\ lastStep.op = "fetchSuppressed"
    /\ selectedProject = JSNull
    /\ changed
    /\ error # ""
    /\ ~loading
    /\ inflight = {}

\* C6: after a failed list request is processed the list is empty, loading
\* is false and error is the server's message when the response carried a
\* (non-empty) one, the generic message otherwise.
C6_ListFailure ==
    lastStep.op = "listFailure" =>
        /\ requirements = <<>>
        /\ ~loading
        /\ error = IF lastStep.body \in {Absent, Some("")}
                   THEN "Failed to load requirements"
                   ELSE lastStep.body[1]

\* C6 witness: a failure carrying a server message was processed after a
\* non-empty page had been shown.
C6_Witness ==
    /\ lastStep.op = "listFailure"
    /\ lastStep.body = Some("Invalid page")
    /\ error = "Invalid page"
    /\ filteredStats.total > 0
    /\ requirements = <<>>

\* C7: loading becomes true only in a step that issues a list request, is
\* true after every such step, and is false after a step that processes a
\* list response, success and failure alike.
C7_LoadingProtocol ==
    [][/\ Issues => loading'
       /\ (~loading /\ loading') => Issues
       /\ Answered # {} => ~loading']_vars

\* C7 witness: a request was issued and answered while a debounce timer is
\* pending: loading is false during the wait.
C7_Witness ==
    /\ lastStep.op \in {"listSuccess", "listFailure"}
    /\ timers # {}
    /\ ~loading

\* C8 as stated: after a successful list response the list is the response's
\* requirements (empty if absent) and pagination is the response's page,
\* pages and total, an absent value replaced by 1, 1 and 0.
C8_SuccessTakesResponseValues ==
    lastStep.op = "listSuccess" =>
        LET data == lastStep.body
            list == IF data.requirements = Absent THEN <<>>
                    ELSE data.requirements[1]
        IN  /\ Len(requirements) = Len(list)
            /\ \A i \in 1..Len(list) : requirements[i].status = list[i]
            /\ pagination.page = IF data.page = Absent THEN 1 ELSE data.page[1]
            /\ pagination.pages =
                  IF data.pages = Absent THEN 1 ELSE data.pages[1]
            /\ pagination.total =
                  IF data.total = Absent THEN 0 ELSE data.total[1]

\* C8 as amended: the same, an absent or zero value being replaced by 1, 1
\* and 0.
C8_SuccessTakesResponseValuesOrDefaults ==
    lastStep.op = "listSuccess" =>
        LET data == lastStep.body
            list == IF data.requirements = Absent THEN <<>>
                    ELSE data.requirements[1]
        IN  /\ Len(requirements) = Len(list)
            /\ \A i \in 1..Len(list) : requirements[i].status = list[i]
            /\ pagination.page =
                  IF data.page \in {Absent, Some(0)} THEN 1 ELSE data.page[1]
            /\ pagination.pages =
                  IF data.pages \in {Absent, Some(0)} THEN 1 ELSE data.pages[1]
            /\ pagination.total =
                  IF data.total \in {Absent, Some(0)} THEN 0 ELSE data.total[1]

\* C8 witness: a response reporting zero pages was processed.
C8_Witness ==
    /\ lastStep.op = "listSuccess"
    /\ lastStep.body.pages = Some(0)
    /\ lastStep.body.requirements # Absent
    /\ pagination.pages = 1
    /\ Len(requirements) = 2

\* C9: the statistics computed from a page R have total = length(R),
\* approved, inReview and disapproved equal to the numbers of records with
\* status Approved, Review and Disapproved, and their sum is at most total.
C9_FilteredStatsCountStatuses ==
    lastStep.op = "newFilteredStats" =>
        /\ filteredStats.total = Len(requirements)
        /\ filteredStats.approved = StatusCount(requirements, "Approved")
        /\ filteredStats.inReview = StatusCount(requirements, "Review")
        /\ filteredStats.disapproved = StatusCount(requirements, "Disapproved")
        /\ filteredStats.approved + filteredStats.inReview
              + filteredStats.disapproved <= filteredStats.total

\* C9 witness: the statistics of a full page holding a Draft record and two
\* records of one status.
C9_Witness ==
    /\ lastStep.op = "newFilteredStats"
    /\ Len(requirements) = MaxReqs
    /\ StatusCount(requirements, "Draft") = 1
    /\ filteredStats.inReview = 2
    /\ filteredStats.total = MaxReqs

\* C10: 1 <= pagination.page <= max(pagination.pages, 1) in every state.
C10_PageWithinPages ==
    /\ 1 <= pagination.page
    /\ pagination.page <= (IF pagination.pages >= 1 THEN pagination.pages ELSE 1)

\* C10 witness: Next was clicked up to the last page.
C10_Witness ==
    /\ lastStep.op = "page"
    /\ lastStep.page < pagination.page
    /\ pagination.page = pagination.pages
    /\ pagination.page = MaxPage

\* the values of a sequence
Range(seq) == {seq[i] : i \in 1..Len(seq)}

NoDuplicates(seq) == \A i, j \in 1..Len(seq) : seq[i] = seq[j] => i = j

\* C11: a toggle of value V in category C removes V if it is selected and
\* otherwise appends V after the existing selections, keeps the relative
\* order of the other values, never creates a duplicate and leaves the other
\* categories unchanged; toggling the same V in the same C twice restores
\* C's original set of selected values.
C11_ToggleSemantics ==
    /\ [](/\ \A c \in FilterTypes : NoDuplicates(filters[c])
          /\ \A f \in ToggleInputs :
                Range(ToggleFilter(ToggleFilter(filters, f[1], f[2]),
                                   f[1], f[2])[f[1]])
                    = Range(filters[f[1]]))
    /\ [][filters' # filters =>
            \E f \in ToggleInputs :
                /\ \A c \in FilterTypes \ {f[1]} : filters'[c] = filters[c]
                /\ filters'[f[1]] =
                      IF f[2] \in Range(filters[f[1]])
                      THEN SelectSeq(filters[f[1]], LAMBDA x : x # f[2])
                      ELSE filters[f[1]] \o <<f[2]>>]_vars

\* C11 witness: three types selected in an order that is not the order of
\* the options, one of two selected statuses removed again.
C11_Witness ==
    /\ lastStep.op = "filter"
    /\ filters.type = <<"Security", "Functional", "UI">>
    /\ filters.status = <<"Approved">>
    /\ filters.complexity = <<"Low">>
    /\ filters.priority = <<>>

\* C12: a Previous or Next click changes pagination.page by exactly one and
\* leaves searchQuery, the filters, selectedProject, pagination.pages and
\* pagination.total unchanged.
C12_PageOnlyMutation ==
    [][lastStep'.op = "page" =>
          /\ pagination'.page \in {pagination.page - 1, pagination.page + 1}
          /\ pagination'.pages = pagination.pages
          /\ pagination'.total = pagination.total
          /\ UNCHANGED <<searchQuery, filters, selectedProject>>]_vars

\* C12 witness: Previous was clicked with a search text and a filter set.
C12_Witness ==
    /\ lastStep.op = "page"
    /\ lastStep.page = pagination.page + 1
    /\ searchQuery = "login"
    /\ filters.status = <<"Approved">>
    /\ pagination.pages = MaxPage

\* C13: processing an overall-stats response never changes requirements,
\* filteredStats, pagination or loading; a success only replaces
\* overallStats by the response, a failure only sets the error message.
C13_StatsFetchIndependent ==
    [][/\ lastStep'.op \in {"statsSuccess", "statsFailure"} =>
            UNCHANGED <<requirements, filteredStats, pagination, loading,
                        searchQuery, filters, selectedProject, timers,
                        inflight>>
       /\ lastStep'.op = "statsSuccess" =>
            /\ error' = error
            /\ \E i \in 1..Len(statsInflight) :
                  overallStats' = ServerStats(statsInflight[i])
       /\ lastStep'.op = "statsFailure" =>
            /\ overallStats' = overallStats
            /\ error' = "Failed to load statistics. Please try again."]_vars

\* C13 witness: an overall-stats request failed while a non-empty list is
\* shown: the list stays.
C13_Witness ==
    /\ lastStep.op = "statsFailure"
    /\ Len(requirements) > 0
    /\ filteredStats.total > 0
    /\ overallStats = NoStats
    /\ error = "Failed to load statistics. Please try again."

\* some field of the settings is empty or the site URL has no http:// or
\* https:// scheme
InvalidInput(settings) ==
    \/ settings.siteUrl = <<>>
    \/ settings.email = ""
    \/ settings.apiToken = ""
    \/ settings.projectKey = ""
    \/ /\ ~StartsWith(settings.siteUrl, SchemeHttp)
       /\ ~StartsWith(settings.siteUrl, SchemeHttps)

\* C14: connect fails fast on invalid input: if one of the four fields is
\* empty or the site URL does not start with http:// or https://, no POST
\* /jira/connect is issued and the tracker settings stay unchanged.
C14_ConnectFailsFast ==
    /\ [](\A i \in 1..Len(connectInflight) : ~InvalidInput(connectInflight[i]))
    /\ [][/\ lastStep'.op \in {"connect", "connectRejected"}
          /\ InvalidInput(lastStep'.body)
          => UNCHANGED <<connectInflight, jiraSettings>>]_vars

\* C14 witness: settings with the URL http:/a.io were submitted while a
\* connect request was in flight, and that request is still the only one.
C14_Witness ==
    /\ lastStep.op = "connectRejected"
    /\ lastStep.body.siteUrl = UrlOneSlash
    /\ connectInflight = <<GoodSettings>>
    /\ ~jiraSettings.isConnected

\* C15: jiraSettings changes only when the response to a connect attempt
\* reports success, and then becomes {isConnected: true, projectKey: the
\* submitted key}; failed connects and all pushes leave it unchanged, so
\* isConnected never goes from true back to false.
C15_SettingsChangeOnlyOnConnectSuccess ==
    /\ [][\/ jiraSettings' # jiraSettings
          \/ lastStep'.op = "connectResponse" /\ lastStep'.body.success
          => /\ lastStep'.op = "connectResponse"
             /\ lastStep'.body.success
             /\ \E i \in 1..Len(connectInflight) :
                   /\ connectInflight' = RemoveAt(connectInflight, i)
                   /\ jiraSettings' =
                         [isConnected |-> TRUE,
                          projectKey |-> connectInflight[i].projectKey]]_vars
    /\ [][jiraSettings.isConnected => jiraSettings'.isConnected]_vars

\* C15 witness: connected with the key OPS, a connect attempt failed
\* afterwards, and a push has succeeded and another has failed.
C15_Witness ==
    /\ jiraSettings = [isConnected |-> TRUE, projectKey |-> "OPS"]
    /\ lastStep.op = "connectFailure"
    /\ Len(pushAttempts) = 2
    /\ pushAttempts[1].pc = "Succeeded"
    /\ pushAttempts[2].pc = "Failed"

\* C16: every connect attempt that does not succeed (a transport error, an
\* error status or a body with success = false) shows the server's error
\* message when there is one and a generic message otherwise, and leaves the
\* settings as they were.
C16_ConnectFailureSurfaced ==
    [][\/ lastStep'.op = "connectFailure"
       \/ lastStep'.op = "connectResponse" /\ ~lastStep'.body.success
       => /\ jiraSettings' = jiraSettings
          /\ alertShown' =
                Some([kind |-> "connectFailed",
                      message |->
                         LET e == IF lastStep'.op = "connectFailure"
                                  THEN lastStep'.body
                                  ELSE lastStep'.body.error
                         IN IF e = Absent \/ e = Some("")
                            THEN "Jira connection failed. Please check your settings."
                            ELSE e[1]])]_vars

\* C17: a push starts only for a requirement whose status is Approved and
\* only while isConnected is true; no POST /jira/push is issued while
\* isConnected is false.
C17_PushOnlyApprovedWhenConnected ==
    /\ [](pushAttempts # <<>> => jiraSettings.isConnected)
    /\ [][Len(pushAttempts') > Len(pushAttempts)
          => /\ jiraSettings.isConnected
             /\ Len(pushAttempts') = Len(pushAttempts) + 1
             /\ LET id == pushAttempts'[Len(pushAttempts')].requirementId
                IN /\ id \in 1..Len(requirements)
                   /\ requirements[id].status = "Approved"]_vars

\* C17 witness: the third card, the only Approved one of its page, was
\* pushed.
C17_Witness ==
    /\ lastStep.op = "push"
    /\ Len(requirements) = 3
    /\ pushAttempts[Len(pushAttempts)].requirementId = 3
    /\ pushAttempts[Len(pushAttempts)].pc = "Sending"

\* the raw error text of a failed push: the error text of the response when
\* there is a non-empty one, otherwise the message of the error
RawError(step) ==
    LET fallback == IF step.op = "pushFailure" THEN step.body.message
                    ELSE <<"U", "n", "k", "n", "o", "w", "n", " ",
                           "e", "r", "r", "o", "r">>
    IN IF step.body.error = <<>> \/ step.body.error = <<<<>>>>
       THEN fallback ELSE step.body.error[1]

\* guidance when text has the keyword, nothing otherwise
GuidanceIf(text, keyword, guidance) ==
    IF Contains(text, keyword) THEN guidance ELSE <<>>

PushFailed(step) ==
    \/ step.op = "pushFailure"
    \/ step.op = "pushResponse" /\ ~step.body.success

\* C18: for every raw error text E the composed message is E, then the
\* reconnect guidance iff E contains "Unauthorized", then the
\* verify-project-key guidance iff E contains "projectKey", then the
\* issue-types guidance iff E contains "issuetype"; every decision is taken
\* on E alone and nothing else is changed.
C18_ClassificationOnRawText ==
    PushFailed(lastStep) =>
        LET E == RawError(lastStep)
        IN alertShown =
              Some([kind |-> "pushFailed",
                    text |-> PushFailedPrefix \o E
                             \o GuidanceIf(E, KeyUnauthorized, GuidanceReconnect)
                             \o GuidanceIf(E, KeyProjectKey, GuidanceProjectKey)
                             \o GuidanceIf(E, KeyIssuetype, GuidanceIssueTypes)])

\* C18 witness: the text "projectKeyUnauthorized", whose first keyword is
\* put together from two fragments, got the reconnect and the project-key
\* guidance, in this order, and not the issue-types guidance.
C18_Witness ==
    /\ lastStep.op = "pushFailure"
    /\ lastStep.body.error = Some(FragProject \o FragKey \o KeyUnauthorized)
    /\ alertShown[1].text =
          PushFailedPrefix \o KeyProjectKey \o KeyUnauthorized
              \o GuidanceReconnect \o GuidanceProjectKey

\* C19: a push attempt goes Sending -> Succeeded or Failed and stays there:
\* it issues one POST, is never retried and reports one outcome once,
\* Succeeded with the issue key and URL when the response has success = true,
\* Failed with the composed message on a rejection (transport error, timeout,
\* error status) or a response with success = false; every attempt ends.
C19_PushAttemptLifecycle ==
    /\ [](\A k \in 1..Len(pushAttempts) :
             /\ pushAttempts[k].posts = 1
             /\ pushAttempts[k].pc \in {"Sending", "Succeeded", "Failed"}
             /\ pushAttempts[k].alerts
                    = IF pushAttempts[k].pc = "Sending" THEN 0 ELSE 1)
    /\ [][/\ Len(pushAttempts') >= Len(pushAttempts)
          /\ \A k \in 1..Len(pushAttempts') :
                IF k > Len(pushAttempts)
                THEN pushAttempts'[k].pc = "Sending"
                ELSE \/ pushAttempts'[k] = pushAttempts[k]
                     \/ /\ pushAttempts[k].pc = "Sending"
                        /\ lastStep'.id = k
                        /\ pushAttempts'[k].requirementId
                              = pushAttempts[k].requirementId
                        /\ \/ /\ lastStep'.op = "pushResponse"
                              /\ lastStep'.body.success
                              /\ pushAttempts'[k].pc = "Succeeded"
                              /\ alertShown' =
                                    Some([kind |-> "created",
                                          key |-> lastStep'.body.issue[1].key,
                                          url |-> lastStep'.body.issue[1].url])
                           \/ /\ PushFailed(lastStep')
                              /\ pushAttempts'[k].pc = "Failed"
                              /\ alertShown'[1].kind = "pushFailed"]_vars
    /\ \A k \in 1..MaxPushes :
          (k <= Len(pushAttempts) /\ pushAttempts[k].pc = "Sending")
              ~> (/\ k <= Len(pushAttempts)
                  /\ pushAttempts[k].pc \in {"Succeeded", "Failed"})

\* C19 witness: the first attempt failed on the timeout, and the second, for
\* the same card, succeeded.
C19_Witness ==
    /\ Len(pushAttempts) = 2
    /\ pushAttempts[1].pc = "Failed"
    /\ pushAttempts[2].pc = "Succeeded"
    /\ pushAttempts[1].requirementId = pushAttempts[2].requirementId
    /\ lastStep.op = "pushResponse"
    /\ alertShown = Some([kind |-> "created", key |-> "REQ-1", url |-> "u"])

\* C20: the export is a no-op whenever no project is selected or the
\* requirement list is empty: no CSV document is produced, no download is
\* started and no state changes.
C20_ExportNoOp ==
    [][/\ lastStep'.op = "export"
       /\ \/ selectedProject \in {JSNull, JSNaN}
          \/ requirements = <<>>
       => UNCHANGED <<downloads, query, projects, jiraSettings,
                      isJiraModalOpen, connectInflight, pushAttempts>>]_vars

\* C20 witness: after one export the project was deselected and, with the
\* list still shown, the export button clicked again: one file only.
C20_Witness ==
    /\ lastStep.op = "export"
    /\ selectedProject = JSNull
    /\ Len(requirements) = 2
    /\ Len(downloads) = 1
    /\ ~loading

\* position i of text lies between double quotes
InQuotes(text, i) ==
    Cardinality({j \in 1..(i - 1) : text[j] = "\""}) % 2 = 1

\* the positions of text where c separates: outside double quotes
Separators(text, c) ==
    {i \in 1..Len(text) : text[i] = c /\ ~InQuotes(text, i)}

\* the pieces of text between the positions in breaks
SplitAt(text, breaks) ==
    LET at(k) == IF k = 0 THEN 0
                 ELSE IF k = Cardinality(breaks) + 1 THEN Len(text) + 1
                 ELSE CHOOSE p \in breaks :
                         Cardinality({q \in breaks : q < p}) = k - 1
    IN [k \in 1..(Cardinality(breaks) + 1) |->
           SubSeq(text, at(k - 1) + 1, at(k) - 1)]

\* the rows of a CSV document, each the sequence of its raw fields: a comma
\* ends a field and a line break ends a row, except between double quotes
CsvRows(text) ==
    LET lines == SplitAt(text, Separators(text, "\n"))
    IN [k \in 1..Len(lines) |->
           SplitAt(lines[k], Separators(lines[k], ","))]

\* the text of a quoted field: the enclosing quotes removed and every pair
\* of quotes read as one
RECURSIVE Undoubled(_)
Undoubled(text) ==
    IF text = <<>> THEN <<>>
    ELSE IF Len(text) >= 2 /\ text[1] = "\"" /\ text[2] = "\""
    THEN <<"\"">> \o Undoubled(SubSeq(text, 3, Len(text)))
    ELSE <<Head(text)>> \o Undoubled(Tail(text))

Unescaped(field) == Undoubled(SubSeq(field, 2, Len(field) - 1))

\* the hours of a list, a missing estimate counting as 0
RECURSIVE SumOfHours(_)
SumOfHours(reqs) ==
    IF reqs = <<>> THEN 0
    ELSE (IF Head(reqs).estimated_time = <<>> THEN 0
          ELSE Head(reqs).estimated_time[1]) + SumOfHours(Tail(reqs))

\* the hourly rate of the selected project, 0 without one
RateNow ==
    LET own == {i \in 1..Len(projects) :
                   selectedProject = [type |-> "number",
                                      value |-> projects[i].id]}
    IN IF own = {} THEN 0
       ELSE LET p == projects[CHOOSE i \in own : \A j \in own : i <= j]
            IN IF p.hourly_rate = <<>> THEN 0 ELSE p.hourly_rate[1]

\* C21: for a selected project and n >= 1 requirements the exported document
\* has n + 7 rows: project name, hourly rate, blank, the 10-column header,
\* one row per requirement in list order, blank, Total Hours (the sum of the
\* hours), Total Cost (that sum times the rate).
C21_ExportStructure ==
    [][Len(downloads') > Len(downloads) =>
          LET rows == CsvRows(downloads'[Len(downloads')].content)
              n == Len(requirements)
          IN /\ n >= 1
             /\ Len(rows) = n + 7
             /\ Len(rows[1]) = 2
             /\ rows[1][1] = <<"P", "r", "o", "j", "e", "c", "t", " ",
                               "N", "a", "m", "e">>
             /\ \E i \in 1..Len(projects) :
                   /\ selectedProject = JSNum(projects[i].id)
                   /\ rows[1][2] = projects[i].name
             /\ rows[2] = << <<"H", "o", "u", "r", "l", "y", " ",
                               "R", "a", "t", "e">>,
                             <<"$">> \o IntegerText(RateNow)
                                 \o <<".", "0", "0">> >>
             /\ rows[3] = << <<>> >>
             /\ rows[4] = << <<"I", "D">>,
                             <<"R", "e", "q", "u", "i", "r", "e", "m", "e",
                               "n", "t">>,
                             <<"S", "t", "a", "t", "u", "s">>,
                             <<"P", "r", "i", "o", "r", "i", "t", "y">>,
                             <<"C", "o", "m", "p", "l", "e", "x", "i", "t",
                               "y">>,
                             <<"A", "u", "t", "h", "o", "r">>,
                             <<"D", "a", "t", "e">>,
                             <<"H", "o", "u", "r", "s">>,
                             <<"C", "o", "s", "t">>,
                             <<"C", "o", "s", "t", "/", "H", "o", "u", "r">> >>
             /\ \A i \in 1..n :
                   /\ Len(rows[4 + i]) = 10
                   /\ rows[4 + i][1] = IntegerText(requirements[i].id)
                   /\ Unescaped(rows[4 + i][2]) = requirements[i].requirement
                   /\ rows[4 + i][6] = requirements[i].author
             /\ rows[n + 5] = << <<>> >>
             /\ rows[n + 6] = << <<"T", "o", "t", "a", "l", " ",
                                   "H", "o", "u", "r", "s">>,
                                 IntegerText(SumOfHours(requirements)) >>
             /\ rows[n + 7] = << <<"T", "o", "t", "a", "l", " ",
                                   "C", "o", "s", "t">>,
                                 <<"$">>
                                   \o IntegerText(SumOfHours(requirements)
                                                      * RateNow)
                                   \o <<".", "0", "0">> >>]_vars

\* C21 witness: two requirements of Acme Co, at 50 an hour, were exported:
\* nine rows.
C21_Witness ==
    /\ lastStep.op = "export"
    /\ Len(requirements) = 2
    /\ RateNow = 50
    /\ Len(downloads) >= 1
    /\ Len(CsvRows(downloads[Len(downloads)].content)) = 9

\* C22: in every exported requirement row the requirement text is wrapped
\* in double quotes with every internal double quote doubled, so that
\* un-escaping the field gives back the original text.
C22_RequirementTextEscaped ==
    \A d \in 1..Len(downloads) :
        LET rows == CsvRows(downloads[d].content)
            text == requirements[1].requirement
            quotes == Len(SelectSeq(text, LAMBDA c : c = "\""))
        IN /\ Len(rows) = 8
           /\ Len(rows[5]) = 10
           /\ LET field == rows[5][2]
              IN /\ Len(field) = Len(text) + 2 + quotes
                 /\ field[1] = "\""
                 /\ field[Len(field)] = "\""
                 /\ Unescaped(field) = text

\* C22 witness: the text ",", a quote, a line break was exported.
C22_Witness ==
    /\ Len(downloads) = 1
    /\ requirements[1].requirement = <<",", "\"", "\n">>

\* factors the rate is scaled by
Scales == 0..3

\* C23: for every list and every non-negative rate totalHours is the sum of
\* the hours (a missing estimate counting as 0) and totalCost is totalHours
\* times the rate; the empty list gives {0, 0}; for fixed hours totalCost is
\* linear in the rate.
C23_CostAggregation ==
    /\ [](RateNow >= 0 =>
            /\ currentCosts.totalHours = SumOfHours(requirements)
            /\ currentCosts.totalCost = SumOfHours(requirements) * RateNow
            /\ requirements = <<>> =>
                  currentCosts = [totalHours |-> 0, totalCost |-> 0])
    /\ [][\A k \in Scales :
            /\ requirements' = requirements
            /\ RateNow >= 0
            /\ RateNow' = k * RateNow
            => currentCosts'.totalCost = k * currentCosts.totalCost]_vars

\* C23 witness: hours 2 and a missing estimate, and the project was changed
\* from the one at 50 an hour to the one at 100: the cost is 200.
C23_Witness ==
    /\ lastStep.op = "project"
    /\ selectedProject = JSNum(2)
    /\ projects[1].hourly_rate = Some(50)
    /\ RateNow = 100
    /\ Len(requirements) = 2
    /\ requirements[1].estimated_time = Some(2)
    /\ requirements[2].estimated_time = Absent
    /\ currentCosts = [totalHours |-> 2, totalCost |-> 200]

\* C24: negative inputs are clamped to zero: for every list and rate, also
\* with negative hours or a negative rate, totalHours and totalCost are
\* never negative.
C24_NegativeInputsClamped ==
    /\ currentCosts.totalHours >= 0
    /\ currentCosts.totalCost >= 0

\* C25: the cost summary shown with the Filtered Statistics and the one
\* shown with the Overall Statistics both equal the costs of the current
\* list at the hourly rate of the currently selected project (0 without
\* one), in every state.
C25_CostsDerived ==
    LET costs == [totalHours |-> SumOfHours(requirements),
                  totalCost |-> SumOfHours(requirements) * RateNow]
    IN /\ currentCosts = costs
       /\ overallCosts = costs

\* C25 witness: project 2 was selected while the list of project 1, with 2
\* hours, is still shown: the costs are at the rate of project 2.
C25_Witness ==
    /\ lastStep.op = "project"
    /\ selectedProject = JSNum(2)
    /\ projects[1].hourly_rate = Some(100)
    /\ projects[2].hourly_rate = Some(50)
    /\ SumOfHours(requirements) = 2
    /\ overallCosts.totalCost = 100

\* C26: the shown list is never changed locally. A search, a filter toggle,
\* a page click, a project change, connecting the tracker, a push and an
\* export leave requirements and filteredStats as they are; only processing
\* the response of a list request, successful or failed, changes them.
C26_ListNeverMutatedLocally ==
    [][(requirements' # requirements \/ filteredStats' # filteredStats)
          => lastStep'.op \in {"listSuccess", "listFailure"}]_vars

\* after a project change, a search, a filter toggle, a page click, a
\* connection, a push and an export the first page is still shown
C26_Witness ==
    /\ lastStep.op = "export"
    /\ statsInflight # <<>>
    /\ searchQuery = "login"
    /\ filters # NoFilters
    /\ pagination.page = 2
    /\ jiraSettings.isConnected
    /\ pushAttempts # <<>>
    /\ requirements = <<FirstRecord, SecondRecord>>
    /\ filteredStats = newFilteredStats(requirements)

\* C27: the page reset of a filter toggle is not undone by a response in
\* flight: every list request issued after a filter toggle, with no click
\* on Previous or Next in between, carries page 1, also when the response
\* of an earlier request for another page is processed between the toggle
\* and the new request.
C27_PageResetSurvives ==
    [][(Issues /\ toggledSincePage = Some(TRUE))
          => \A r \in inflight' \ inflight : r.deps.page = 1]_vars

\* C28: whenever at least one list request is in flight (issued, response
\* not yet processed), loading is true, also when two list requests overlap
\* and the response of the first has been processed.
C28_LoadingWhileInFlight == inflight # {} => loading

\* C29: in every reachable state filteredStats describes the shown list:
\* total is its length and approved, inReview and disapproved are its
\* numbers of Approved, Review and Disapproved records, in particular after
\* a failed list fetch has cleared the list.
C29_FilteredStatsOfList ==
    /\ filteredStats.total = Len(requirements)
    /\ filteredStats.approved = StatusCount(requirements, "Approved")
    /\ filteredStats.inReview = StatusCount(requirements, "Review")
    /\ filteredStats.disapproved = StatusCount(requirements, "Disapproved")

\* C30: the shown list belongs to the selected project: in every state in
\* which an export is possible (a project is selected, the list is not
\* empty, loading is false) every record of requirements was returned by a
\* list request for the selected project.
C30_ListOfSelectedProject ==
    (isValidProjectId(selectedProject) /\ ExportEnabled)
        => \A i \in 1..Len(requirements) :
              requirements[i].project = selectedProject

\* C31: once every outstanding overall-stats response has been processed and
\* a valid project is selected, overallStats is the answer to the stats
\* request of the selected project, whatever the order in which the
\* responses for successively selected projects arrive.
C31_OverallStatsOfSelectedProject ==
    (statsInflight = <<>> /\ isValidProjectId(selectedProject))
        => overallStats = ServerStats(selectedProject)

\* C32: the error of a failed overall-stats fetch is not lost: after a
\* project change whose stats request fails and whose list request
\* succeeds, the error message is not empty once both responses have been
\* processed, in every order of the stats response and the start of the
\* list request.
C32_StatsErrorKept ==
    (/\ isValidProjectId(selectedProject)
     /\ statsInflight = <<>>
     /\ timers = {}
     /\ inflight = {}
     /\ issuedSinceChange > 0)
        => error # ""

\* C33: the debounced fetch settles: when the user makes no further change
\* and every request issued is answered with the page it asked for, then
\* eventually no timer is pending, no list request is in flight and loading
\* is false, and it stays so: no further list request is issued.
C33_Settles ==
    <>[](lastStep.op \notin {"filter", "page"})
        => <>[](timers = {} /\ inflight = {} /\ ~loading)

====
